---- MODULE Spec2Model ----
(***************************************************************************)
(* A model of story_agent's world-state consistency engine: the            *)
(* protagonist progression gate (src/src/generation/chapter.py), the       *)
(* world-state update cycle that calls it                                  *)
(* (src/src/generation/services/chapter_workflow.py) and the chapter       *)
(* approval workflow (src/src/interactive/workflow.py).                    *)
(*                                                                         *)
(* Text.  A Python str is modelled as a sequence of text tokens, so that   *)
(* strip, split, join, startswith and the substring test `a in b` are      *)
(* computed, not assumed.  TLA+ strings are ASCII, so the tokens are       *)
(* stand-ins for the source's characters:                                  *)
(*     "."  the level separator "·"                                        *)
(*     "["  the full-width parenthesis "（"    "]"  "）"                    *)
(*     "("  the ASCII parenthesis "("          ")"  ")"                    *)
(*     "J"  the rank token "境"                                            *)
(*     " "  a blank                                                        *)
(* and a fixed literal of a format string is one token, e.g.               *)
(* "境界更新被拦截: " is the token BlockedPrefix.                          *)
(***************************************************************************)
EXTENDS Integers, Sequences, FiniteSets, TLC

Min(a, b) == IF a < b THEN a ELSE b

Max(a, b) == IF a > b THEN a ELSE b

(* list[-n:] of Python, n > 0 *)
Tail_n(s, n) == SubSeq(s, Max(1, Len(s) - n + 1), Len(s))

(* list[:n] of Python *)
Head_n(s, n) == SubSeq(s, 1, Min(n, Len(s)))

RECURSIVE LStrip(_)
LStrip(s) == IF s # <<>> /\ Head(s) = " " THEN LStrip(Tail(s)) ELSE s

RECURSIVE RStrip(_)
RStrip(s) == IF s # <<>> /\ s[Len(s)] = " " THEN RStrip(SubSeq(s, 1, Len(s) - 1)) ELSE s

(* str.strip() *)
Strip(s) == RStrip(LStrip(s))

(* `tok in s` for a single token *)
HasToken(s, tok) == \E i \in 1..Len(s) : s[i] = tok

(* `sub in s`: substring test *)
Contains(s, sub) ==
    \E i \in 0..(Len(s) - Len(sub)) : SubSeq(s, i + 1, i + Len(sub)) = sub

(* s.startswith(prefix) *)
StartsWith(s, prefix) == Len(prefix) <= Len(s) /\ SubSeq(s, 1, Len(prefix)) = prefix

(* s.split(tok, 1)[0] *)
BeforeFirst(s, tok) ==
    IF HasToken(s, tok)
    THEN SubSeq(s, 1, (CHOOSE i \in 1..Len(s) : s[i] = tok /\ \A j \in 1..(i - 1) : s[j] # tok) - 1)
    ELSE s

(* s.split(tok): the list of parts *)
RECURSIVE Split(_, _)
Split(s, tok) ==
    IF HasToken(s, tok)
    THEN <<BeforeFirst(s, tok)>> \o Split(SubSeq(s, Len(BeforeFirst(s, tok)) + 2, Len(s)), tok)
    ELSE <<s>>

(* tok.join(parts) *)
RECURSIVE Join(_, _)
Join(parts, tok) ==
    IF parts = <<>> THEN <<>>
    ELSE IF Len(parts) = 1 THEN parts[1]
    ELSE parts[1] \o <<tok>> \o Join(Tail(parts), tok)

(* [f(x) for x in s if keep(x)] with f = strip, keep = non-empty *)
RECURSIVE StripNonEmpty(_)
StripNonEmpty(parts) ==
    IF parts = <<>> THEN <<>>
    ELSE (IF Strip(Head(parts)) # <<>> THEN <<Strip(Head(parts))>> ELSE <<>>)
         \o StripNonEmpty(Tail(parts))

(* the set of all orderings of a finite set: Python iterates a set of *)
(* str in an order that depends on the process's hash seed            *)
Orderings(S) ==
    {q \in [1..Cardinality(S) -> S] : \A i, j \in 1..Cardinality(S) : q[i] = q[j] => i = j}


(***************************************************************************)
(* Levels, requirement statuses and the progression gate's pure helpers.   *)
(***************************************************************************)

(* "·" *)
SEP == "."

(* "境" *)
RANK == "J"

(* minimum length of a level that is granular through its rank token *)
RankLevelMinLen == 4

(* the coarse placeholders: 人类 道士 武夫 将军 修士 鬼物 未知 凡人 *)
blocked ==
    { <<"ren", "lei">>, <<"dao", "shi">>, <<"wu", "fu">>, <<"jiang", "jun">>,
      <<"xiu", "shi">>, <<"gui", "wu">>, <<"wei", "zhi">>, <<"fan", "ren">> }

(* mutant: the blocked set is not consulted *)
GranularIfNonEmpty(level_text) == Strip(level_text) # <<>>

_is_granular_level(level_text) ==
    IF level_text = <<>> THEN FALSE
    ELSE IF HasToken(Strip(level_text), SEP) THEN TRUE
    ELSE IF HasToken(Strip(level_text), RANK) /\ Len(Strip(level_text)) >= RankLevelMinLen THEN TRUE
    ELSE Strip(level_text) \notin blocked

(* the text left of a parenthetical qualifier, full-width first, then ASCII *)
CutQualifier(s, paren) == IF HasToken(s, paren) THEN Strip(BeforeFirst(s, paren)) ELSE s

LevelParts(normalized) == StripNonEmpty(Split(normalized, SEP))

_normalize_level_key(level_text) ==
    LET stripped == Strip(level_text)
        normalized == CutQualifier(CutQualifier(stripped, "["), "(")
        parts == LevelParts(normalized)
    IN  IF stripped = <<>> THEN <<>>
        ELSE IF Len(parts) >= 3 THEN Join(SubSeq(parts, 1, 3), SEP)
        ELSE IF Len(parts) >= 2 THEN Join(SubSeq(parts, 1, 2), SEP)
        ELSE normalized

(* str.lower() on the status vocabulary *)
LowerToken(tok) ==
    CASE tok = "Done" -> "done"
      [] tok = "DONE" -> "done"
      [] tok = "Acquired" -> "acquired"
      [] tok = "Completed" -> "completed"
      [] OTHER -> tok

Lower(s) == [i \in 1..Len(s) |-> LowerToken(s[i])]

(* done completed acquired fulfilled 已完成 完成 达成 已获取 获取 获得 acquire *)
done_tokens ==
    { <<"done">>, <<"completed">>, <<"acquired">>, <<"fulfilled">>,
      <<"yi", "wan", "cheng">>, <<"wan", "cheng">>, <<"da", "cheng">>,
      <<"yi", "huo", "qu">>, <<"huo", "qu">>, <<"huo", "de">>, <<"acquire">> }

_is_requirement_done(status_value) ==
    LET normalized == Lower(Strip(status_value))
    IN  IF normalized = <<>> THEN FALSE ELSE normalized \in done_tokens


(***************************************************************************)
(* The progression document.  A dict key that may be absent, and a value   *)
(* that may be None, is a sequence of length 0 (absent / None) or 1.       *)
(*   progression == [present, name, current_level, next_level,             *)
(*                   active_transition, active_transition_index,           *)
(*                   transitions, resource_inventory, history]             *)
(*   transition  == [from_level, to_level, required_resources,             *)
(*                   required_conditions, completed]                       *)
(*   requirement == [name, status, keywords]                               *)
(* resource_inventory is <<>> when the key is absent, <<list>> otherwise;  *)
(* an absent history reads as the empty list and is stored on first use.   *)
(* active_transition_index holds Python's 0-based index; transitions[i]    *)
(* of Python is transitions[i + 1] here.                                   *)
(* A reference to the dict the gate works on (Python passes the dict       *)
(* object): [found, direct, idx].                                          *)
(***************************************************************************)

NoRef == [found |-> FALSE, direct |-> FALSE, idx |-> 0]

(* 0-based positions of the transitions that are not completed *)
Incomplete(transitions) == {i \in 0..(Len(transitions) - 1) : ~transitions[i + 1].completed}

FirstIncomplete(transitions) ==
    CHOOSE i \in Incomplete(transitions) : \A j \in Incomplete(transitions) : i <= j

(* returns the reference and the progression, whose index the scan may set *)
_get_active_transition(progression) ==
    IF ~progression.present THEN [ref |-> NoRef, progression |-> progression]
    ELSE IF progression.active_transition # <<>>
    THEN [ref |-> [found |-> TRUE, direct |-> TRUE, idx |-> 0], progression |-> progression]
    ELSE IF progression.transitions = <<>> THEN [ref |-> NoRef, progression |-> progression]
    ELSE IF /\ progression.active_transition_index # <<>>
            /\ 0 <= progression.active_transition_index[1]
            /\ progression.active_transition_index[1] < Len(progression.transitions)
    THEN [ref |-> [found |-> TRUE, direct |-> FALSE, idx |-> progression.active_transition_index[1]],
          progression |-> progression]
    ELSE IF Incomplete(progression.transitions) # {}
    THEN [ref |-> [found |-> TRUE, direct |-> FALSE, idx |-> FirstIncomplete(progression.transitions)],
          progression |->
              [progression EXCEPT !.active_transition_index = <<FirstIncomplete(progression.transitions)>>]]
    ELSE [ref |-> NoRef, progression |-> progression]

(* the dict a reference designates *)
Deref(progression, ref) ==
    IF ref.direct THEN progression.active_transition[1] ELSE progression.transitions[ref.idx + 1]

(* assignment through a reference *)
Assign(progression, ref, transition) ==
    IF ref.direct THEN [progression EXCEPT !.active_transition = <<transition>>]
    ELSE [progression EXCEPT !.transitions[ref.idx + 1] = transition]

(* the tokens of a list after str(item).strip(), empty ones dropped *)
Tokens(items) == {Strip(items[i]) : i \in 1..Len(items)} \ {<<>>}

(* status_change first, then status_entries, as update() and the gate collect them *)
StatusEntries(update) ==
    (IF update.status_change # <<>> THEN <<Strip(update.status_change)>> ELSE <<>>)
    \o StripNonEmpty(update.status_entries)

ExplicitResources(update) ==
    (IF update.breakthrough_progress # <<>>
     THEN Tokens(update.breakthrough_progress[1].resources_acquired) ELSE {})
    \cup Tokens(update.new_items)

ExplicitConditions(update) ==
    (IF update.breakthrough_progress # <<>>
     THEN Tokens(update.breakthrough_progress[1].conditions_completed) ELSE {})
    \cup {StatusEntries(update)[i] : i \in 1..Len(StatusEntries(update))}

(* new_content[:1500] *)
ContentClip == 1500

(* " ".join(list(explicit_resources) + list(explicit_conditions) + [mental, physical, excerpt]) *)
CombinedText(update, new_content, res_order, cond_order) ==
    Join(res_order \o cond_order
         \o <<Strip(update.mental_state), Strip(update.physical_state), Head_n(new_content, ContentClip)>>,
         " ")

(* mutant: every named resource is appended, held already or not *)
AppendAll(inventory, names) == inventory \o names

(* resources not yet in the inventory are appended in set-iteration order *)
RECURSIVE AppendMissing(_, _)
AppendMissing(inventory, names) ==
    IF names = <<>> THEN inventory
    ELSE AppendMissing(IF \E i \in 1..Len(inventory) : inventory[i] = Head(names)
                       THEN inventory ELSE Append(inventory, Head(names)),
                       Tail(names))

(* progression.get("resource_inventory", []): when the key is absent the  *)
(* default list is a temporary that is never stored in the document        *)
InventoryList(progression) ==
    IF progression.resource_inventory = <<>> THEN <<>> ELSE progression.resource_inventory[1]

KeywordHit(requirement, combined_text) ==
    \E k \in 1..Len(requirement.keywords) :
        Strip(requirement.keywords[k]) # <<>> /\ Contains(combined_text, Strip(requirement.keywords[k]))

(* mutant: only a keyword marks a requirement, its name does not *)
MarksByKeywordOnly(requirement, explicit, combined_text) ==
    /\ Strip(requirement.name) # <<>>
    /\ ~_is_requirement_done(requirement.status)
    /\ KeywordHit(requirement, combined_text)

(* whether the loop marks this requirement *)
Marks(requirement, explicit, combined_text) ==
    /\ Strip(requirement.name) # <<>>
    /\ ~_is_requirement_done(requirement.status)
    /\ \/ Strip(requirement.name) \in explicit
       \/ Contains(combined_text, Strip(requirement.name))
       \/ KeywordHit(requirement, combined_text)

(* mutant: a requirement this update does not mention falls back to pending *)
MarkAllResetting(requirements, explicit, combined_text, new_status) ==
    [i \in 1..Len(requirements) |->
        [requirements[i] EXCEPT !.status = IF Marks(requirements[i], explicit, combined_text)
                                           THEN new_status ELSE <<"pending">>]]

MarkAll(requirements, explicit, combined_text, new_status) ==
    [i \in 1..Len(requirements) |->
        IF Marks(requirements[i], explicit, combined_text)
        THEN [requirements[i] EXCEPT !.status = new_status]
        ELSE requirements[i]]

(* one log line per name whose flag is set, in order *)
RECURSIVE LogLines(_, _, _)
LogLines(prefix, names, keep) ==
    IF names = <<>> THEN <<>>
    ELSE (IF keep[1] THEN <<<<prefix>> \o Head(names)>> ELSE <<>>)
         \o LogLines(prefix, Tail(names), Tail(keep))

(* the log lines of the requirements a marking pass changed *)
MarkedLines(prefix, before, after) ==
    LogLines(prefix, [i \in 1..Len(before) |-> Strip(before[i].name)],
             [i \in 1..Len(before) |-> after[i].status # before[i].status])

(* the marking pass, given the active transition and the text it searches *)
MarkProgress(progression, ref, transition, resources, conditions, inventory, res_order) ==
    [progression |->
         Assign([progression EXCEPT !.resource_inventory =
                                        IF @ = <<>> THEN @ ELSE <<AppendMissing(inventory, res_order)>>],
                ref,
                [transition EXCEPT !.required_resources = resources,
                                   !.required_conditions = conditions]),
     logs |->
         LogLines("ResourceStored: ", res_order,
                  [i \in 1..Len(res_order) |->
                      ~\E j \in 1..Len(inventory) : inventory[j] = res_order[i]])
         \o MarkedLines("ResourceMet: ", transition.required_resources, resources)
         \o MarkedLines("ConditionMet: ", transition.required_conditions, conditions)]

MarkInText(progression, ref, transition, update, combined_text, res_order) ==
    MarkProgress(progression, ref, transition,
                 MarkAll(transition.required_resources, ExplicitResources(update),
                         combined_text, <<"acquired">>),
                 MarkAll(transition.required_conditions, ExplicitConditions(update),
                         combined_text, <<"done">>),
                 InventoryList(progression), res_order)

_mark_transition_progress(progression, ref, update, new_content, res_order, cond_order) ==
    MarkInText(progression, ref, Deref(progression, ref), update,
               CombinedText(update, new_content, res_order, cond_order), res_order)

MissingOf(prefix, requirements) ==
    LogLines(prefix, [i \in 1..Len(requirements) |-> Strip(requirements[i].name)],
             [i \in 1..Len(requirements) |->
                 Strip(requirements[i].name) # <<>> /\ ~_is_requirement_done(requirements[i].status)])

(* mutant: the pending conditions are forgotten *)
MissingResourcesOnly(transition) == MissingOf("Resource:", transition.required_resources)

(* "资源:<name>" for each pending resource, then "条件:<name>" for each pending condition *)
_collect_missing_requirements(transition) ==
    MissingOf("Resource:", transition.required_resources)
    \o MissingOf("Condition:", transition.required_conditions)

(* 0-based index of the first transition that is the referenced dict itself *)
(* or has its from_level and to_level; -1 models None                       *)
_find_transition_index(progression, ref) ==
    LET transitions == progression.transitions
        transition == Deref(progression, ref)
        hits == {i \in 0..(Len(transitions) - 1) :
                    \/ (~ref.direct /\ i = ref.idx)
                    \/ /\ transitions[i + 1].from_level = transition.from_level
                       /\ transitions[i + 1].to_level = transition.to_level}
    IN  IF hits = {} THEN <<>> ELSE <<CHOOSE i \in hits : \A j \in hits : i <= j>>

(* missing[:4] *)
MissingShown == 4

(* history[-20:] *)
HistoryCap == 20

(* the next incomplete transition after position idx, or none *)
NextIncomplete(transitions, idx) == {i \in Incomplete(transitions) : i > idx}

(* mutant: the transition is completed but the index is not advanced *)
CompleteWithoutAdvance(progression, ref, level_update) ==
    [Assign(progression, ref, [Deref(progression, ref) EXCEPT !.completed = TRUE])
        EXCEPT !.current_level = level_update,
               !.history = Tail_n(Append(@, <<"Breakthrough: ">> \o Deref(progression, ref).from_level
                                            \o <<" -> ">> \o Deref(progression, ref).to_level),
                                  HistoryCap)]

_complete_transition(progression, ref, level_update) ==
    LET transition == Deref(progression, ref)
        line == <<"Breakthrough: ">> \o transition.from_level \o <<" -> ">> \o transition.to_level
        p1 == [Assign(progression, ref, [transition EXCEPT !.completed = TRUE])
                  EXCEPT !.current_level = level_update,
                         !.history = Tail_n(Append(@, line), HistoryCap)]
        idx == _find_transition_index(p1, ref)
        later == IF idx = <<>> THEN {} ELSE NextIncomplete(p1.transitions, idx[1])
    IN  IF idx = <<>> \/ later = {}
        THEN [p1 EXCEPT !.next_level = <<>>, !.active_transition_index = <<>>]
        ELSE LET next_idx == CHOOSE i \in later : \A j \in later : i <= j
             IN  [p1 EXCEPT !.active_transition_index = <<next_idx>>,
                            !.next_level = p1.transitions[next_idx + 1].to_level]

(* mutant: the request is not compared with the transition's target *)
GateDecisionAnyTarget(got, marked, transition, char, level_update) ==
    IF _normalize_level_key(level_update)
           = _normalize_level_key(Strip(IF marked.progression.current_level # <<>>
                                        THEN marked.progression.current_level ELSE char.level))
    THEN [allowed |-> TRUE, reason |-> <<>>, logs |-> marked.logs,
          progression |-> marked.progression, completed |-> NoRef]
    ELSE IF _collect_missing_requirements(transition) # <<>>
    THEN [allowed |-> FALSE,
          reason |-> <<"Unmet: ">>
                     \o Join(Head_n(_collect_missing_requirements(transition), MissingShown), ";"),
          logs |-> marked.logs, progression |-> marked.progression, completed |-> NoRef]
    ELSE [allowed |-> TRUE, reason |-> <<>>, logs |-> marked.logs,
          progression |-> _complete_transition(marked.progression, got.ref, level_update),
          completed |-> got.ref]

(* the gate's decision once the active transition is resolved (got) and    *)
(* this update's progress is marked (marked)                               *)
GateDecision(got, marked, transition, char, level_update) ==
    LET expected_level == _normalize_level_key(Strip(transition.to_level))
        requested_level == _normalize_level_key(level_update)
        current_level ==
            _normalize_level_key(Strip(IF marked.progression.current_level # <<>>
                                       THEN marked.progression.current_level ELSE char.level))
        missing == _collect_missing_requirements(transition)
    IN  IF requested_level = current_level
        THEN [allowed |-> TRUE, reason |-> <<>>, logs |-> marked.logs,
              progression |-> marked.progression, completed |-> NoRef]
        ELSE IF expected_level # <<>> /\ requested_level # expected_level
        THEN [allowed |-> FALSE, reason |-> <<"PathFixedNextIs: ">> \o transition.to_level,
              logs |-> marked.logs, progression |-> marked.progression, completed |-> NoRef]
        ELSE IF missing # <<>>
        THEN [allowed |-> FALSE, reason |-> <<"Unmet: ">> \o Join(Head_n(missing, MissingShown), ";"),
              logs |-> marked.logs, progression |-> marked.progression, completed |-> NoRef]
        ELSE [allowed |-> TRUE, reason |-> <<>>,
              logs |-> Append(marked.logs,
                              <<"BreakthroughDone: ">> \o transition.from_level
                              \o <<" -> ">> \o transition.to_level),
              progression |-> _complete_transition(marked.progression, got.ref, level_update),
              completed |-> got.ref]

GateMarked(got, marked, char, level_update) ==
    GateDecision(got, marked, Deref(marked.progression, got.ref), char, level_update)

GateResolved(got, char, update, new_content, level_update, res_order, cond_order) ==
    IF ~got.ref.found
    THEN [allowed |-> TRUE, reason |-> <<>>, logs |-> << <<"LevelSynced: ">> \o level_update >>,
          progression |-> [got.progression EXCEPT !.current_level = level_update],
          completed |-> NoRef]
    ELSE GateMarked(got,
                    _mark_transition_progress(got.progression, got.ref, update, new_content,
                                              res_order, cond_order),
                    char, level_update)

(* mutant: the gate does not look at the name the plan carries *)
HandleAnyCharacter(progression, char, update, new_content, level_update, res_order, cond_order) ==
    IF ~progression.present
    THEN [allowed |-> TRUE, reason |-> <<>>, logs |-> <<>>, progression |-> progression,
          completed |-> NoRef]
    ELSE GateResolved(_get_active_transition(progression), char, update, new_content,
                      level_update, res_order, cond_order)

(* the gate: [allowed, reason, logs, progression, completed]; completed is *)
(* the reference _complete_transition was called on, NoRef if it was not   *)
_handle_protagonist_level_update(progression, char, update, new_content, level_update, res_order, cond_order) ==
    IF ~progression.present
    THEN [allowed |-> TRUE, reason |-> <<>>, logs |-> <<>>, progression |-> progression,
          completed |-> NoRef]
    ELSE IF Strip(progression.name) # <<>> /\ char.name # Strip(progression.name)
    THEN [allowed |-> TRUE, reason |-> <<>>, logs |-> <<>>, progression |-> progression,
          completed |-> NoRef]
    ELSE GateResolved(_get_active_transition(progression), char, update, new_content,
                      level_update, res_order, cond_order)

(***************************************************************************)
(* The world-state update cycle, WorldStateUpdateService.update.           *)
(*   character == [name, level, current_status, physical_state,            *)
(*                 mental_state]                                           *)
(*   update    == [name, status_change, status_entries, physical_state,    *)
(*                 mental_state, level_update, breakthrough_progress,      *)
(*                 new_items]                                              *)
(* An absent or empty str field of an update is <<>>;                      *)
(* breakthrough_progress is <<>> when absent, <<[resources_acquired,       *)
(* conditions_completed]>> otherwise.                                      *)
(***************************************************************************)

(* char["current_status"][-10:] *)
StatusCap == 10

(* "境界更新被拦截: " *)
BlockedPrefix == "LevelUpdateBlocked: "

(* "境界更新被忽略（过粗）: " *)
IgnoredPrefix == "LevelUpdateIgnoredTooCoarse: "

NoGate == [consulted |-> FALSE, allowed |-> FALSE, reason |-> <<>>, completed |-> NoRef]

(* the branch for an update with breakthrough_progress and no level_update *)
ProgressOnly(progression, char, update, new_content, res_order, cond_order) ==
    LET got == _get_active_transition(progression)
    IN  IF /\ update.breakthrough_progress # <<>>
           /\ update.level_update = <<>>
           /\ progression.present
           /\ (Strip(progression.name) = <<>> \/ Strip(progression.name) = char.name)
        THEN IF got.ref.found
             THEN _mark_transition_progress(got.progression, got.ref, update, new_content,
                                            res_order, cond_order)
             ELSE [progression |-> got.progression, logs |-> <<>>]
        ELSE [progression |-> progression, logs |-> <<>>]

(* the level_update part of the loop body, given the gate's answer *)
ApplyLevelUpdate(c1, prog, level_update, gate) ==
    IF _is_granular_level(level_update)
    THEN [char |->
              IF gate.allowed THEN [c1 EXCEPT !.level = level_update]
              ELSE IF gate.reason # <<>>
              THEN [c1 EXCEPT !.current_status =
                                  Tail_n(Append(@, <<BlockedPrefix>> \o gate.reason), StatusCap)]
              ELSE c1,
          progression |-> gate.progression,
          gate |-> [consulted |-> TRUE, allowed |-> gate.allowed, reason |-> gate.reason,
                    completed |-> gate.completed],
          logs |-> prog.logs \o gate.logs]
    ELSE [char |-> [c1 EXCEPT !.current_status =
                                  Tail_n(Append(@, <<IgnoredPrefix>> \o level_update), StatusCap)],
          progression |-> prog.progression, gate |-> NoGate, logs |-> prog.logs]

(* the scalar and status part of the loop body *)
ApplyStatus(char, update) ==
    [char EXCEPT
        !.current_status =
            IF StatusEntries(update) # <<>>
            THEN Tail_n(@ \o StatusEntries(update), StatusCap) ELSE @,
        !.physical_state =
            IF update.physical_state # <<>> THEN Strip(update.physical_state) ELSE @,
        !.mental_state =
            IF update.mental_state # <<>> THEN Strip(update.mental_state) ELSE @]

MergeLevel(c1, prog, update, new_content, res_order, cond_order) ==
    IF update.level_update = <<>>
    THEN [char |-> c1, progression |-> prog.progression, gate |-> NoGate, logs |-> prog.logs]
    ELSE ApplyLevelUpdate(c1, prog, Strip(update.level_update),
                          _handle_protagonist_level_update(
                              prog.progression, c1, update, new_content,
                              Strip(update.level_update), res_order, cond_order))

(* the body of the loop over character_updates for the character the update names: *)
(* [char, progression, gate, logs]                                                 *)
MergeCharacterUpdate(progression, char, update, new_content, res_order, cond_order) ==
    MergeLevel(ApplyStatus(char, update),
               ProgressOnly(progression, ApplyStatus(char, update), update, new_content,
                            res_order, cond_order),
               update, new_content, res_order, cond_order)

(***************************************************************************)
(* State.                                                                  *)
(***************************************************************************)
VARIABLES
    characters,     \* gen.world_data["characters"]
    progression,    \* gen.world_data["world"]["protagonist_progression"]
    stored,         \* the document the store holds: [characters, progression]
    pc,             \* update(): "idle", or "merging" inside the character_updates loop
    new_content,    \* update()'s argument: the chapter text of the running cycle
    applied,        \* number of character_updates entries merged so far
    entry,          \* number of entries merged in the running cycle
    completions,    \* per transition, how often _complete_transition ran on it
    last            \* the entry merged last, the state it met and the gate's answer

gateVars == <<characters, progression, stored, pc, new_content, applied, entry, completions, last>>

(* StoryWriteWorkflow (interactive/workflow.py) and what it calls *)
VARIABLES
    using_langgraph,  \* self._graph is not None: the step graph runs the nodes
    thinking_engine,  \* self.chapter_gen.thinking_engine is set
    node,             \* "idle", the node to run next, "END" (returned) or "raised"
    state,            \* the WriteWorkflowState of the running invocation
    input,            \* invoke()'s arguments: [approved, preparation]
    steps,            \* the nodes run in this invocation, in order
    calls,            \* the calls made on chapter_gen and storage in this invocation
    passed,           \* the bundles handed to generate_from_plan in this invocation
    outcome,          \* what the generate_from_plan stream did in this invocation
    serial,           \* number of bundles prepare_writing has produced
    awaited,          \* the bundles returned by invocations that ended awaiting approval
    invocations       \* number of invoke() calls so far

wfVars == <<using_langgraph, thinking_engine, node, state, input, steps, calls, passed, outcome,
            serial, awaited, invocations>>

(* the character merger of WorldStateUpdateService.update and its store *)
VARIABLES
    origin,              \* the characters the initializer produced
    world_data,          \* gen.world_data["characters"] with the merger's collections
    world_state_notes,   \* gen.world_data["world_state_notes"]
    disk,                \* world_state.json: [complete, data], data the document written
    cycle,               \* number of update() calls so far
    stage,               \* update(): "idle", or "merging" inside the character_updates loop
    latest_chapter_num,  \* the chapter number the running cycle stamps on actions
    journal,             \* per merged entry: the entry and what it appended to whom
    writes,              \* save_world_state calls of the running (or last) cycle
    result               \* what the last cycle returned: "none", "updated" or "failed"

mergeVars == <<origin, world_data, world_state_notes, disk, cycle, stage, latest_chapter_num, journal, writes, result>>

(* PlotThinkingEngine (generation/thinking.py) and its backend *)
VARIABLES
    plan_cache,   \* self._plan_cache: the [key, plan] entries, least recently used first
    cache_size,   \* self.cache_size
    ai_calls,     \* number of stream_chat calls made on the planning backend
    analyses      \* per analyze_chapter call: its key parts, what it did and returned

thinkVars == <<plan_cache, cache_size, ai_calls, analyses>>

(* the chapter files of a project and the generation target resolved from them *)
VARIABLES
    chapter_files,          \* storage.list_chapters(): per file [num, words, readable], sorted
    default_chapter_words,  \* config.default_chapter_words
    latest_chapter,         \* what _get_latest_chapter returned to the last resolution
    target_meta             \* what _resolve_generation_target returned last

targetVars == <<chapter_files, default_chapter_words, latest_chapter, target_meta>>

(* a chapter generator, the project around it and its generate_from_plan calls *)
VARIABLES
    project,                \* versions of the stored world state, chapters and outline
    gen_thinking_engine,    \* gen.thinking_engine is set
    generations             \* per generate_from_plan call: bundle, prompt built, prompts sent

genVars == <<project, gen_thinking_engine, generations>>

(* a saved outline and the last resolution of a chapter against it *)
VARIABLES
    outline_text,           \* the lines of the outline, stripped
    resolution            \* [chapter_num, found] of the last _parse_outline_for_chapter

outlineVars == <<outline_text, resolution>>

(* the streaming operations called so far *)
VARIABLES
    streams

streamVars == <<streams>>

(* the data saved for a project and the operations attempted on it *)
VARIABLES
    saved,
    attempts

setupVars == <<saved, attempts>>

(* WorldStateUpdateService.update seen as the generator it is (chapter_workflow.py:204-579) *)
VARIABLES
    gen_world,      \* gen.world_data: one element per response merged into it
    store_world,    \* the world_state document save_world_state wrote last
    state_ai,       \* the backend of the running call: [text, raise_at, repair]
    response_text,  \* the chunks received so far
    update_pos,     \* where the generator stands
    update_items,   \* the items it has yielded
    update_result,  \* how it ended and the dict it returned
    update_calls,   \* number of calls made
    at_call         \* gen_world and store_world when the running call began

updateVars == <<gen_world, store_world, state_ai, response_text, update_pos, update_items, update_result, update_calls, at_call>>

(* ChapterPreparationService.prepare and the project state it reads (chapter_workflow.py:9-67) *)
VARIABLES
    plan_in_memory, \* gen.world_data["world"]["protagonist_progression"], <<>> before a generator exists
    plan_on_disk,   \* the same part of the stored world_state document
    cached_keys,    \* the keys the planning cache holds
    prepare_log     \* per prepare() call: outcomes met, the plan before and after, how it ended

prepareVars == <<plan_in_memory, plan_on_disk, cached_keys, prepare_log>>

(* the plan objects of PlotThinkingEngine: who holds a reference to which dict (thinking.py:45-148) *)
VARIABLES
    heap,           \* the dict objects alive, by identity: heap[id] is the object's content
    cache_entries,  \* self._plan_cache as [key, plan] with plan a pair of identities
    handed_plans    \* the plans analyze_chapter yielded: [key, plan, hit, seen]

aliasVars == <<heap, cache_entries, handed_plans>>

(* the per-update limits of a merge: the incoming lists, the stored memories, the truncations made *)
VARIABLES
    memory_updates,
    char_memory,
    limit_log

limitVars == <<memory_updates, char_memory, limit_log>>

(* the chapter files of a project and the bundles the workflow has returned *)
VARIABLES
    chapters_dir,
    returned_bundles,
    persist_log,
    store_invocations

storeVars == <<chapters_dir, returned_bundles, persist_log, store_invocations>>

vars == <<gateVars, wfVars, mergeVars, thinkVars, targetVars, genVars, outlineVars, streamVars, setupVars, updateVars, prepareVars, aliasVars, limitVars, storeVars>>

(* what the actions of one component leave alone *)
outsideGate == <<wfVars, mergeVars, thinkVars, targetVars, genVars, outlineVars, streamVars, setupVars, updateVars, prepareVars, aliasVars, limitVars, storeVars>>

outsideWorkflow == <<gateVars, mergeVars, thinkVars, targetVars, genVars, outlineVars, streamVars, setupVars, updateVars, prepareVars, aliasVars, limitVars, storeVars>>

outsideMerge == <<gateVars, wfVars, thinkVars, targetVars, genVars, outlineVars, streamVars, setupVars, updateVars, prepareVars, aliasVars, limitVars, storeVars>>

outsideThinking == <<gateVars, wfVars, mergeVars, targetVars, genVars, outlineVars, streamVars, setupVars, updateVars, prepareVars, aliasVars, limitVars, storeVars>>

outsideTarget == <<gateVars, wfVars, mergeVars, thinkVars, genVars, outlineVars, streamVars, setupVars, updateVars, prepareVars, aliasVars, limitVars, storeVars>>

outsideGeneration == <<gateVars, wfVars, mergeVars, thinkVars, targetVars, outlineVars, streamVars, setupVars, updateVars, prepareVars, aliasVars, limitVars, storeVars>>

outsideOutline == <<gateVars, wfVars, mergeVars, thinkVars, targetVars, genVars, streamVars, setupVars, updateVars, prepareVars, aliasVars, limitVars, storeVars>>

outsideStreams == <<gateVars, wfVars, mergeVars, thinkVars, targetVars, genVars, outlineVars, setupVars, updateVars, prepareVars, aliasVars, limitVars, storeVars>>

outsideSetup == <<gateVars, wfVars, mergeVars, thinkVars, targetVars, genVars, outlineVars, streamVars, updateVars, prepareVars, aliasVars, limitVars, storeVars>>

outsideUpdate == <<gateVars, wfVars, mergeVars, thinkVars, targetVars, genVars, outlineVars, streamVars, setupVars, prepareVars, aliasVars, limitVars, storeVars>>

outsidePrepare == <<gateVars, wfVars, mergeVars, thinkVars, targetVars, genVars, outlineVars, streamVars, setupVars, updateVars, aliasVars, limitVars, storeVars>>

outsideAlias == <<gateVars, wfVars, mergeVars, thinkVars, targetVars, genVars, outlineVars, streamVars, setupVars, updateVars, prepareVars, limitVars, storeVars>>

outsideLimits == <<gateVars, wfVars, mergeVars, thinkVars, targetVars, genVars, outlineVars, streamVars, setupVars, updateVars, prepareVars, aliasVars, storeVars>>

outsideStore == <<gateVars, wfVars, mergeVars, thinkVars, targetVars, genVars, outlineVars, streamVars, setupVars, updateVars, prepareVars, aliasVars, limitVars>>

StoreUnused ==
    /\ chapters_dir = {}
    /\ returned_bundles = {}
    /\ persist_log = <<>>
    /\ store_invocations = 0

LimitsUnused ==
    /\ memory_updates = <<>>
    /\ char_memory = <<>>
    /\ limit_log = <<>>

AliasUnused ==
    /\ heap = <<>>
    /\ cache_entries = <<>>
    /\ handed_plans = <<>>

PrepareUnused ==
    /\ plan_in_memory = <<>>
    /\ plan_on_disk = <<>>
    /\ cached_keys = {}
    /\ prepare_log = <<>>

(* no call is running *)
NoBackend == [text |-> <<>>, raise_at |-> <<>>, repair |-> "absent"]

NoCall == [gen_world |-> <<>>, store_world |-> <<>>]

UpdateUnused ==
    /\ gen_world = <<>>
    /\ store_world = <<>>
    /\ state_ai = NoBackend
    /\ response_text = <<>>
    /\ update_pos = "idle"
    /\ update_items = <<>>
    /\ update_result = "none"
    /\ update_calls = 0
    /\ at_call = NoCall

SetupUnused ==
    /\ saved = [outline |-> FALSE, blueprint |-> FALSE, detailed_outline |-> FALSE, world_state |-> FALSE]
    /\ attempts = <<>>

StreamsUnused ==
    /\ streams = <<>>

(* no outline was saved *)
OutlineUnused ==
    /\ outline_text = <<>>
    /\ resolution = [chapter_num |-> 0, found |-> [volume |-> "", phase |-> "", specific_goal |-> <<>>]]

(* no generator was built *)
GenerationUnused ==
    /\ project = [world |-> 0, chapters |-> 0, outline |-> 0]
    /\ gen_thinking_engine = FALSE
    /\ generations = <<>>

(* no chapter was stored and no target resolved *)
TargetUnused ==
    /\ chapter_files = <<>>
    /\ default_chapter_words = 0
    /\ latest_chapter = [ch_num |-> 0, ch_len |-> 0, exists |-> FALSE]
    /\ target_meta = [mode |-> "none", chapter_num |-> 0, chapter_len |-> 0, target_words |-> 0]

(* no thinking engine was constructed *)
ThinkingUnused ==
    /\ plan_cache = <<>>
    /\ cache_size = 0
    /\ ai_calls = 0
    /\ analyses = <<>>

(* a merger that holds no document and was never run *)
MergeUnused ==
    /\ origin = <<>>
    /\ world_data = <<>>
    /\ world_state_notes = <<>>
    /\ disk = [complete |-> FALSE, data |-> <<>>]
    /\ cycle = 0
    /\ stage = "idle"
    /\ latest_chapter_num = 0
    /\ journal = <<>>
    /\ writes = 0
    /\ result = "none"

(* invoke()'s arguments; preparation is None (<<>>) or <<bundle>> *)
Input(approved, preparation) == [approved |-> approved, preparation |-> preparation]

(* a workflow that was constructed and never invoked *)
WorkflowIdle ==
    /\ node = "idle"
    /\ state = [approved |-> FALSE]
    /\ input = Input(FALSE, <<>>)
    /\ steps = <<>>
    /\ calls = <<>>
    /\ passed = <<>>
    /\ outcome = "none"
    /\ serial = 0
    /\ awaited = {}
    /\ invocations = 0

(* no workflow was constructed *)
WorkflowUnused ==
    /\ using_langgraph = FALSE
    /\ thinking_engine = FALSE
    /\ WorkflowIdle

(* the text fixtures, after tests/test_world_state_think_update.py:236-380 *)
Hero == <<"ShenYansheng">>

Npc == <<"GeneralGhost">>

(* 鬼道·怨灵境·后期 *)
Late == <<"gui", "dao", ".", "yuan", "ling", "J", ".", "hou", "qi">>

(* 鬼道·怨灵境·后期（井底破封后） *)
LateQ == Late \o <<"[", "po", "feng", "]">>

(* 鬼道·怨灵境·圆满 *)
Full == <<"gui", "dao", ".", "yuan", "ling", "J", ".", "yuan", "man">>

(* 鬼道·怨灵境·圆满（镜域寄生） *)
FullQ == Full \o <<"[", "ji", "sheng", "]">>

(* 鬼道·厉鬼境·初期 *)
Fierce == <<"gui", "dao", ".", "li", "gui", "J", ".", "chu", "qi">>

(* 修士: a coarse placeholder *)
Coarse == <<"xiu", "shi">>

(* 筑基: a level without separator or rank token that is no listed placeholder *)
Plain == <<"zhu", "ji">>

(* 镜鬼本源碎片, 三夜惊恐香火, 完成一次镜面猎杀并稳定魂核, 厉鬼鬼核, 吞噬同阶强敌 *)
Shard == <<"jing", "gui", "sui", "pian">>

Incense == <<"xiang", "huo">>

MirrorHunt == <<"jing", "mian", "lie", "sha">>

GhostCore == <<"gui", "he">>

Devour == <<"tun", "shi">>

Req(name, status, keywords) == [name |-> name, status |-> status, keywords |-> keywords]

Transitions(incense_status) ==
    << [from_level |-> Late, to_level |-> FullQ,
        required_resources |-> <<Req(Shard, <<"missing">>, <<>>), Req(Incense, incense_status, <<>>)>>,
        required_conditions |-> <<Req(MirrorHunt, <<"pending">>, << <<"he", "hun">> >>)>>,
        completed |-> FALSE],
       [from_level |-> Full, to_level |-> Fierce,
        required_resources |-> <<Req(GhostCore, <<"missing">>, <<>>)>>,
        required_conditions |-> <<Req(Devour, <<"pending">>, <<>>)>>,
        completed |-> FALSE] >>

Plan(name, index, inventory, incense_status) ==
    [present |-> TRUE, name |-> name, current_level |-> LateQ, next_level |-> FullQ,
     active_transition |-> <<>>, active_transition_index |-> index,
     transitions |-> Transitions(incense_status), resource_inventory |-> inventory,
     history |-> <<>>]

(* no protagonist_progression in the document: the empty dict *)
NoPlan ==
    [present |-> FALSE, name |-> <<>>, current_level |-> <<>>, next_level |-> <<>>,
     active_transition |-> <<>>, active_transition_index |-> <<>>,
     transitions |-> <<>>, resource_inventory |-> <<>>, history |-> <<>>]

(* the progression documents a project starts from: the tests' document    *)
(* (index 0, no inventory key), one with the index unset, an inventory     *)
(* and a requirement already " Done", one that names no character, none    *)
InitialPlans ==
    { Plan(Hero, <<0>>, <<>>, <<"missing">>),
      Plan(Hero, <<>>, << <<>> >>, <<" ", "Done">>),
      Plan(<<>>, <<0>>, << <<>> >>, <<"missing">>),
      NoPlan }

Character(name, level) ==
    [name |-> name, level |-> level, current_status |-> <<>>,
     physical_state |-> <<>>, mental_state |-> <<>>]

InitialCharacters == <<Character(Hero, LateQ), Character(Npc, <<"jiang", "jun">>)>>

Update(name, level_update, progress) ==
    [name |-> name, status_change |-> <<>>, status_entries |-> <<>>, physical_state |-> <<>>,
     mental_state |-> <<>>, level_update |-> level_update, breakthrough_progress |-> progress,
     new_items |-> <<>>]

Progress(resources, conditions) ==
    << [resources_acquired |-> resources, conditions_completed |-> conditions] >>

(* the character_updates entries the backend may return: for the protagonist *)
(* every pairing of a level with a progress report, three entries whose      *)
(* evidence is in the free-text fields, an unstructured level for either,    *)
(* and four entries for the other cast                                       *)
LevelInputs == {<<>>, FullQ, Full, LateQ, Fierce, Coarse}

ProgressInputs ==
    { <<>>, Progress(<<Shard>>, <<>>),
      Progress(<<Shard, Incense, GhostCore>>, <<MirrorHunt, Devour>>) }

Updates ==
    {Update(Hero, l, p) : l \in LevelInputs, p \in ProgressInputs}
    \cup { [Update(Hero, <<>>, <<>>) EXCEPT !.status_change = <<"zhong", "yu">> \o MirrorHunt],
           [Update(Hero, FullQ, <<>>) EXCEPT !.mental_state = <<"he", "hun", "hou">>,
                                             !.new_items = <<Shard>>],
           [Update(Hero, Full, Progress(<<>>, <<>>)) EXCEPT !.physical_state = Incense] }
    \cup { Update(Hero, Plain, <<>>), Update(Npc, Plain, <<>>) }
    \cup { Update(Npc, Fierce, <<>>), Update(Npc, Coarse, <<>>),
           Update(Npc, FullQ, Progress(<<Shard, Incense>>, <<MirrorHunt>>)),
           Update(Npc, <<>>, Progress(<<Shard>>, <<>>)) }

(* chapter texts: one that says nothing, one whose prose mentions 三夜惊恐香火 *)
Contents == {<<>>, <<"ta", "de", "dao">> \o Incense \o <<"le">>}

(* bound: character_updates entries merged in one run *)
MaxUpdates == 2

NoLast ==
    [seq |-> 0, entry |-> 0, update |-> Update(<<>>, <<>>, <<>>), content |-> <<>>, char |-> 0,
     pre_char |-> Character(<<>>, <<>>), pre_progression |-> NoPlan, gate |-> NoGate]

GateInit ==
    /\ characters = InitialCharacters
    /\ progression \in InitialPlans
    /\ stored = [characters |-> characters, progression |-> progression]
    /\ pc = "idle"
    /\ new_content = <<>>
    /\ applied = 0
    /\ entry = 0
    /\ completions = [i \in 0..1 |-> 0]
    /\ last = NoLast
    /\ WorkflowUnused
    /\ MergeUnused
    /\ ThinkingUnused
    /\ TargetUnused
    /\ GenerationUnused
    /\ OutlineUnused
    /\ StreamsUnused
    /\ SetupUnused
    /\ UpdateUnused
    /\ PrepareUnused
    /\ AliasUnused
    /\ LimitsUnused
    /\ StoreUnused

(* update() is entered: the backend's stream is consumed and parsed *)
BeginUpdate ==
    /\ pc = "idle"
    /\ applied < MaxUpdates
    /\ \E content \in Contents : new_content' = content
    /\ pc' = "merging"
    /\ entry' = 0
    /\ UNCHANGED <<characters, progression, stored, applied, completions, last>>
    /\ UNCHANGED outsideGate

(* positions of the characters an update names *)
Named(update) == {i \in 1..Len(characters) : characters[i].name = update.name}

(* one pass of the loop over updates["character_updates"] *)
ApplyCharacterUpdate ==
    /\ pc = "merging"
    /\ applied < MaxUpdates
    /\ \E update \in Updates :
       \E res_order \in Orderings(ExplicitResources(update)) :
       \E cond_order \in Orderings(ExplicitConditions(update)) :
         /\ Named(update) # {}
         /\ \E i \in {CHOOSE k \in Named(update) : TRUE} :
            \E merged \in {MergeCharacterUpdate(progression, characters[i], update, new_content,
                                               res_order, cond_order)} :
                /\ characters' = [characters EXCEPT ![i] = merged.char]
                /\ progression' = merged.progression
                /\ completions' =
                       IF merged.gate.completed.found /\ ~merged.gate.completed.direct
                       THEN [completions EXCEPT ![merged.gate.completed.idx] = @ + 1]
                       ELSE completions
                /\ last' = [seq |-> applied + 1, entry |-> entry + 1, update |-> update, content |-> new_content,
                            char |-> i, pre_char |-> characters[i],
                            pre_progression |-> progression, gate |-> merged.gate]
    /\ applied' = applied + 1
    /\ entry' = entry + 1
    /\ UNCHANGED <<stored, pc, new_content>>
    /\ UNCHANGED outsideGate

(* the loop is over: the whole document is written to the store *)
FinishUpdate ==
    /\ pc = "merging"
    /\ stored' = [characters |-> characters, progression |-> progression]
    /\ pc' = "idle"
    /\ UNCHANGED <<characters, progression, new_content, applied, entry, completions, last>>
    /\ UNCHANGED outsideGate

GateNext == BeginUpdate \/ ApplyCharacterUpdate \/ FinishUpdate

SpecGate == GateInit /\ [][GateNext]_vars


(***************************************************************************)
(* Properties of the progression gate.  `last` describes the entry merged  *)
(* last: the update, the character and progression document it met, and   *)
(* the gate's answer; characters and progression are the state it left.    *)
(***************************************************************************)

Merged == last.seq > 0

PreChar == last.pre_char

PostChar == characters[last.char]

Pre == last.pre_progression

Requested == Strip(last.update.level_update)

(* the progression gates this character: a plan exists and names it or nobody *)
Gated(p, char) == p.present /\ (Strip(p.name) = <<>> \/ Strip(p.name) = char.name)

(* the plan names this character *)
NamedIn(p, char) == p.present /\ Strip(p.name) # <<>> /\ Strip(p.name) = char.name

(* the transition the gate resolves in the state the entry met *)
PreRef == _get_active_transition(Pre).ref

PreTransition == Deref(Pre, PreRef)

(* the same transition in the state the entry left *)
PostTransition == Deref(progression, PreRef)

Requirements(transition) == transition.required_resources \o transition.required_conditions

Pending(transition) ==
    \E i \in 1..Len(Requirements(transition)) :
        ~_is_requirement_done(Requirements(transition)[i].status)

(* the index a document designates: the index when set, else the first     *)
(* incomplete transition, else the length of the plan (nothing remains)    *)
Designated(p) ==
    IF p.active_transition_index # <<>> THEN p.active_transition_index[1]
    ELSE IF Incomplete(p.transitions) # {} THEN FirstIncomplete(p.transitions)
    ELSE Len(p.transitions)

Completed(p) == [i \in 1..Len(p.transitions) |-> p.transitions[i].completed]

Statuses(p) ==
    [i \in 1..Len(p.transitions) |->
        [j \in 1..Len(Requirements(p.transitions[i])) |-> Requirements(p.transitions[i])[j].status]]

(* the entry's status lines were appended and then one line with this prefix *)
StatusAppended(prefix) ==
    LET st == PostChar.current_status
    IN  /\ st # <<>>
        /\ StartsWith(st[Len(st)], <<prefix>>)
        /\ SubSeq(st, 1, Len(st) - 1)
               = Tail_n(PreChar.current_status \o StatusEntries(last.update), StatusCap - 1)

(* a gated request for the active transition's target *)
TargetRequested ==
    /\ Merged
    /\ Requested # <<>>
    /\ _is_granular_level(Requested)
    /\ Gated(Pre, PreChar)
    /\ PreRef.found
    /\ _normalize_level_key(Requested) = _normalize_level_key(PreTransition.to_level)

BlockedCase == TargetRequested /\ NamedIn(Pre, PreChar) /\ Pending(PostTransition)

BlockedEffect ==
    /\ last.gate.consulted
    /\ ~last.gate.allowed
    /\ PostChar.level = PreChar.level
    /\ progression.current_level = Pre.current_level
    /\ Completed(progression) = Completed(Pre)
    /\ StatusAppended(BlockedPrefix)

AllNamed ==
    /\ last.update.breakthrough_progress # <<>>
    /\ \A i \in 1..Len(PreTransition.required_resources) :
           Strip(PreTransition.required_resources[i].name)
               \in Tokens(last.update.breakthrough_progress[1].resources_acquired)
    /\ \A i \in 1..Len(PreTransition.required_conditions) :
           Strip(PreTransition.required_conditions[i].name)
               \in Tokens(last.update.breakthrough_progress[1].conditions_completed)

CompletionEffect ==
    /\ last.gate.allowed
    /\ last.gate.completed = PreRef
    /\ PostTransition.completed
    /\ PostChar.level = Requested
    /\ progression.history
           = Tail_n(Append(Pre.history,
                           <<"Breakthrough: ">> \o PreTransition.from_level
                           \o <<" -> ">> \o PreTransition.to_level), HistoryCap)
    /\ IF NextIncomplete(progression.transitions, PreRef.idx) = {}
       THEN progression.active_transition_index = <<>> /\ progression.next_level = <<>>
       ELSE /\ progression.active_transition_index # <<>>
            /\ progression.active_transition_index[1]
                   \in NextIncomplete(progression.transitions, PreRef.idx)
            /\ \A j \in NextIncomplete(progression.transitions, PreRef.idx) :
                   progression.active_transition_index[1] <= j
            /\ progression.next_level
                   = progression.transitions[progression.active_transition_index[1] + 1].to_level

CompletionStep == completions' # completions

(* C3: every transition is completed at most once (completed exactly when  *)
(* its one completion ran, and never reset); a completion moves the        *)
(* designated index strictly forward, to an incomplete transition or to    *)
(* null when none remains; the designated index never moves back.          *)
C3_CompletesOnceAndAdvances ==
    [][ /\ \A i \in DOMAIN completions' : completions'[i] <= 1
        /\ \A i \in 1..Len(progression'.transitions) :
               /\ progression.transitions[i].completed => progression'.transitions[i].completed
               /\ progression'.transitions[i].completed <=> completions'[i - 1] = 1
        /\ Designated(progression') >= Designated(progression)
        /\ CompletionStep =>
               /\ Designated(progression') > Designated(progression)
               /\ IF Incomplete(progression'.transitions) = {}
                  THEN progression'.active_transition_index = <<>>
                  ELSE /\ progression'.active_transition_index # <<>>
                       /\ progression'.active_transition_index[1] \in Incomplete(progression'.transitions)
      ]_gateVars

(* both transitions completed, once each, and the index is null *)
C3_Witness ==
    /\ completions = [i \in 0..1 |-> 1]
    /\ progression.present
    /\ progression.active_transition_index = <<>>
    /\ Completed(progression) = <<TRUE, TRUE>>
    /\ Len(progression.history) = 2

(* the level the gate compares a request with: progression.current_level, *)
(* or the character's level when that is empty                            *)
Tracked == IF Pre.current_level # <<>> THEN Pre.current_level ELSE PreChar.level

OffPathCase ==
    /\ Merged
    /\ Requested # <<>>
    /\ _is_granular_level(Requested)
    /\ Gated(Pre, PreChar)
    /\ PreRef.found
    /\ _normalize_level_key(Requested) # _normalize_level_key(Tracked)
    /\ _normalize_level_key(Requested) # _normalize_level_key(PreTransition.to_level)

(* C4: a granular request of a gated character that is neither the tracked *)
(* level nor the active transition's target is refused with the reason     *)
(* that names the fixed target, whatever the requirement statuses: no      *)
(* completed flag changes, the designated transition stays, level and      *)
(* current_level are unchanged and a blocked status line is appended.      *)
C4_OffPathRejected ==
    OffPathCase =>
        /\ last.gate.consulted
        /\ ~last.gate.allowed
        /\ last.gate.reason = <<"PathFixedNextIs: ">> \o PreTransition.to_level
        /\ Completed(progression) = Completed(Pre)
        /\ Designated(progression) = Designated(Pre)
        /\ PostChar.level = PreChar.level
        /\ progression.current_level = Pre.current_level
        /\ StatusAppended(BlockedPrefix)

(* a request that skips a rank, made when every requirement of the active *)
(* transition is met                                                      *)
C4_Witness ==
    /\ OffPathCase
    /\ Requested = Fierce
    /\ PreRef.idx = 0
    /\ ~Pending(PostTransition)
    /\ ~PostTransition.completed

CoarseCase == Merged /\ Requested \in blocked

(* C5: a level_update from the blocked set is ignored in every state: the *)
(* level and the whole progression document are unchanged, the gate is    *)
(* not consulted, and the "ignored (too coarse)" status line is appended. *)
C5_CoarseIgnored ==
    CoarseCase =>
        /\ ~last.gate.consulted
        /\ PostChar.level = PreChar.level
        /\ progression = Pre
        /\ StatusAppended(IgnoredPrefix)
        /\ PostChar.current_status[Len(PostChar.current_status)] = <<IgnoredPrefix>> \o Requested

(* a coarse level sent by the gated protagonist together with evidence *)
C5_Witness ==
    /\ CoarseCase
    /\ NamedIn(Pre, PreChar)
    /\ PreRef.found
    /\ last.update.breakthrough_progress # <<>>
    /\ Pending(PostTransition)

FreeCase ==
    /\ Merged
    /\ Requested # <<>>
    /\ _is_granular_level(Requested)
    /\ \/ ~Pre.present
       \/ Strip(Pre.name) # <<>> /\ PreChar.name # Strip(Pre.name)

(* C6: a granular level_update of a character the plan does not name, or  *)
(* of any character when there is no plan, is allowed and applied         *)
(* directly, and the progression document is unchanged.                   *)
C6_UngatedApplied ==
    FreeCase =>
        /\ last.gate.consulted
        /\ last.gate.allowed
        /\ PostChar.level = Requested
        /\ PostChar.current_status
               = Tail_n(PreChar.current_status \o StatusEntries(last.update), StatusCap)
        /\ progression = Pre

(* the other character takes the protagonist's target, with evidence, *)
(* while the plan names the protagonist                               *)
C6_Witness ==
    /\ FreeCase
    /\ Pre.present
    /\ PreChar.name = Npc
    /\ Requested = FullQ
    /\ last.update.breakthrough_progress # <<>>
    /\ PostChar.level = FullQ

NoDuplicates(s) == \A i, j \in 1..Len(s) : s[i] = s[j] => i = j

(* the step merges, as the first entry of a new cycle, the entry the cycle *)
(* before merged last, under the same chapter text                        *)
SameEvidenceAgain ==
    /\ last.seq >= 1
    /\ last'.seq = last.seq + 1
    /\ last'.entry = 1
    /\ last'.update = last.update
    /\ last'.content = last.content
    /\ Gated(progression, PreChar)

UnchangedLists ==
    /\ progression'.resource_inventory = progression.resource_inventory
    /\ progression'.history = progression.history

(* no name is twice in the inventory and no line twice in history *)
NeverDuplicated ==
    /\ NoDuplicates(InventoryList(progression'))
    /\ NoDuplicates(progression'.history)

(* C7 as stated: the second of two successive merges of the same evidence *)
(* leaves resource_inventory, requirement statuses and history as the     *)
(* first left them; no name is twice in the inventory, no line twice in   *)
(* history.                                                               *)
C7_Original ==
    [][ /\ NeverDuplicated
        /\ SameEvidenceAgain => UnchangedLists /\ Statuses(progression') = Statuses(progression)
      ]_gateVars

(* C7, amended: no name is ever twice in the inventory and no line twice   *)
(* in history; the second merge leaves inventory and history as the first *)
(* left them, and the requirement statuses too unless the first merge     *)
(* completed the active transition: the same evidence is then matched     *)
(* against the next transition's requirements.                            *)
C7_IdempotentMarking ==
    [][ /\ NeverDuplicated
        /\ SameEvidenceAgain =>
            /\ UnchangedLists
            /\ ~last.gate.completed.found => Statuses(progression') = Statuses(progression)
      ]_gateVars

(* the same evidence merged in two cycles, the inventory holding each name once *)
C7_Witness ==
    /\ last.seq = 2
    /\ last.entry = 1
    /\ last.update.breakthrough_progress # <<>>
    /\ Gated(Pre, PreChar)
    /\ Pre = progression
    /\ Len(InventoryList(progression)) = 3
    /\ \E i \in 1..3 : InventoryList(progression)[i] = Shard
    /\ PostTransition.required_resources[1].status = <<"acquired">>


(***************************************************************************)
(* The approval workflow, interactive/workflow.py:                         *)
(* prepare -> review -> generate -> persist.  A dict is a function whose   *)
(* domain is the set of keys present; dict.get(key) is falsy when the key  *)
(* is absent or its value is empty.  The messages stand for               *)
(*   "prepare failed"             "准备阶段失败: {exc}"                    *)
(*   "prepare returned nothing"   "准备阶段未返回有效结果"                 *)
(*   "missing preparation"        "缺少 preparation，无法生成章节"         *)
(*   "generate failed"            "生成阶段失败: {exc}"                    *)
(*   "generate returned nothing"  "生成阶段未返回结果"                     *)
(*   "missing result"             "缺少生成结果，无法保存"                 *)
(***************************************************************************)
EmptyDict == [k \in {} |-> TRUE]

(* current.update(update), and the step graph's merge of a node's return *)
DictUpdate(current, update) ==
    [k \in DOMAIN current \cup DOMAIN update |->
        IF k \in DOMAIN update THEN update[k] ELSE current[k]]

(* bool(state.get(key)) for a key that holds a bool *)
IsTrue(st, key) == key \in DOMAIN st /\ st[key] = TRUE

(* state.get("preparation") is truthy: a dict with at least one key *)
HasPreparation(st) == "preparation" \in DOMAIN st /\ DOMAIN st.preparation # {}

(* state.get("result") is truthy *)
HasResult(st) == "result" \in DOMAIN st /\ DOMAIN st.result # {}

(* current.get("error") is truthy; every message the nodes set is non-empty *)
HasError(st) == "error" \in DOMAIN st

(* the dict ChapterPreparationService.prepare yields; serial tells the      *)
(* bundles of different prepare_writing calls apart, the other keys are     *)
(* carried along unread by the workflow                                     *)
Bundle(n, thinking_plan) == [serial |-> n, thinking_plan |-> thinking_plan]

ThinkingPlan == <<"summary">>

(* bool(preparation.get("thinking_plan") and self.chapter_gen.thinking_engine) *)
RequiresApproval(preparation, engine) ==
    /\ "thinking_plan" \in DOMAIN preparation
    /\ preparation.thinking_plan # <<>>
    /\ engine

_format_plan_text(preparation, engine, display_ok) ==
    IF RequiresApproval(preparation, engine)
    THEN IF display_ok THEN "plan display" ELSE "plan display failed"
    ELSE "no plan, generating directly"

(* what prepare_writing does when it runs to its end: the planning call is *)
(* made only with a thinking engine, the character-action call always     *)
PrepareCalls(engine) ==
    <<"prepare_writing">> \o (IF engine THEN <<"_run_thinking">> ELSE <<>>)
        \o <<"_run_character_action_graph">>

(* what the prepare_writing stream can do: yield a bundle (with a plan     *)
(* only if the thinking engine produced one), yield no dict, or raise;     *)
(* display_ok: format_full_plan_display returns                            *)
PrepareOutcomes(engine) ==
    [kind : {"bundle", "empty", "raise"},
     thinking_plan : IF engine THEN {<<>>, ThinkingPlan} ELSE {<<>>},
     display_ok : BOOLEAN]

(* mutant: the supplied bundle is ignored and preparation always runs *)
PrepareAlways(st, engine, out, n) ==
    IF out.kind = "raise"
    THEN [update |-> [logs |-> <<>>, error |-> "prepare failed"],
          calls |-> <<"prepare_writing">>, produced |-> 0]
    ELSE IF out.kind = "empty"
    THEN [update |-> [logs |-> <<"preparing">>, error |-> "prepare returned nothing"],
          calls |-> PrepareCalls(engine), produced |-> 0]
    ELSE [update |-> [logs |-> <<"preparing">>,
                      preparation |-> Bundle(n + 1, out.thinking_plan),
                      plan_text |-> _format_plan_text(Bundle(n + 1, out.thinking_plan), engine,
                                                      out.display_ok),
                      requires_approval |-> RequiresApproval(Bundle(n + 1, out.thinking_plan),
                                                             engine)],
          calls |-> PrepareCalls(engine), produced |-> 1]

(* [update, calls, produced]: the dict the node returns, the calls it made *)
(* and the number of bundles prepare_writing produced                      *)
_node_prepare(st, engine, out, n) ==
    IF HasPreparation(st)
    THEN [update |-> [preparation |-> st.preparation,
                      requires_approval |-> RequiresApproval(st.preparation, engine),
                      plan_text |-> _format_plan_text(st.preparation, engine, out.display_ok)],
          calls |-> <<>>, produced |-> 0]
    ELSE IF out.kind = "raise"
    THEN [update |-> [logs |-> <<>>, error |-> "prepare failed"],
          calls |-> <<"prepare_writing">>, produced |-> 0]
    ELSE IF out.kind = "empty"
    THEN [update |-> [logs |-> <<"preparing">>, error |-> "prepare returned nothing"],
          calls |-> PrepareCalls(engine), produced |-> 0]
    ELSE [update |-> [logs |-> <<"preparing">>,
                      preparation |-> Bundle(n + 1, out.thinking_plan),
                      plan_text |-> _format_plan_text(Bundle(n + 1, out.thinking_plan), engine,
                                                      out.display_ok),
                      requires_approval |-> RequiresApproval(Bundle(n + 1, out.thinking_plan),
                                                             engine)],
          calls |-> PrepareCalls(engine), produced |-> 1]

(* mutant: the review never waits for the caller *)
ReviewNeverWaits(st) == [awaiting_approval |-> FALSE]

_node_review(st) ==
    [awaiting_approval |-> IsTrue(st, "requires_approval") /\ ~IsTrue(st, "approved")]

_route_after_review(st) == IF IsTrue(st, "awaiting_approval") THEN "await" ELSE "generate"

(* the dict _build_generation_result returns; new_content may be empty *)
Result(text) == [chapter |-> 1, title |-> "title", new_content |-> text]

(* what the generate_from_plan stream can do *)
GenerateOutcomes == [kind : {"result", "empty", "raise"}, new_content : {<<>>, <<"text">>}]

(* [update, calls, passed, outcome] *)
_node_generate(st, out) ==
    IF ~HasPreparation(st)
    THEN [update |-> [error |-> "missing preparation"],
          calls |-> <<>>, passed |-> <<>>, outcome |-> "none"]
    ELSE IF out.kind = "raise"
    THEN [update |-> [error |-> "generate failed"],
          calls |-> <<"generate_from_plan">>, passed |-> <<st.preparation>>,
          outcome |-> "raise"]
    ELSE IF out.kind = "empty"
    THEN [update |-> [generated_text |-> <<"text">>, error |-> "generate returned nothing"],
          calls |-> <<"generate_from_plan", "stream_chat">>, passed |-> <<st.preparation>>,
          outcome |-> "empty"]
    ELSE [update |-> [generated_text |-> <<"text">>, result |-> Result(out.new_content)],
          calls |-> <<"generate_from_plan", "stream_chat">>, passed |-> <<st.preparation>>,
          outcome |-> "result"]

(* what save_chapter and the update_world_state stream can do: the stream *)
(* yields a dict that reports success ("dict") or failure ("failed"),     *)
(* yields no dict, or raises                                              *)
PersistOutcomes == [save : {"path", "raise"}, world : {"dict", "failed", "empty", "raise"}]

(* the last dict the update_world_state stream yielded, {} without one *)
WorldUpdate(out) ==
    IF out.world = "dict" THEN [updated |-> TRUE]
    ELSE IF out.world = "failed" THEN [updated |-> FALSE]
    ELSE EmptyDict

(* mutant: the world state is updated first and its exception is not caught *)
PersistAfterWorldUpdate(st, out) ==
    IF ~HasResult(st)
    THEN [update |-> [error |-> "missing result"], calls |-> <<>>, raised |-> FALSE]
    ELSE IF st.result.new_content # <<>> /\ out.world = "raise"
    THEN [update |-> EmptyDict, calls |-> <<"update_world_state">>, raised |-> TRUE]
    ELSE IF out.save = "raise"
    THEN [update |-> EmptyDict,
          calls |-> (IF st.result.new_content # <<>> THEN <<"update_world_state">> ELSE <<>>)
                        \o <<"save_chapter">>,
          raised |-> TRUE]
    ELSE [update |-> [saved_path |-> "path",
                      world_update_logs |-> IF st.result.new_content # <<>>
                                            THEN <<"updating world state">> ELSE <<>>,
                      world_update |-> IF st.result.new_content # <<>>
                                       THEN WorldUpdate(out) ELSE EmptyDict],
          calls |-> (IF st.result.new_content # <<>> THEN <<"update_world_state">> ELSE <<>>)
                        \o <<"save_chapter">>,
          raised |-> FALSE]

(* [update, calls, raised]: an exception of save_chapter is not caught *)
_node_persist(st, out) ==
    IF ~HasResult(st)
    THEN [update |-> [error |-> "missing result"], calls |-> <<>>, raised |-> FALSE]
    ELSE IF out.save = "raise"
    THEN [update |-> EmptyDict, calls |-> <<"save_chapter">>, raised |-> TRUE]
    ELSE IF st.result.new_content = <<>>
    THEN [update |-> [saved_path |-> "path", world_update_logs |-> <<>>,
                      world_update |-> EmptyDict],
          calls |-> <<"save_chapter">>, raised |-> FALSE]
    ELSE [update |-> [saved_path |-> "path",
                      world_update_logs |-> IF out.world = "raise"
                                            THEN <<"world update failed">>
                                            ELSE <<"updating world state">>,
                      world_update |-> WorldUpdate(out)],
          calls |-> <<"save_chapter", "update_world_state">>, raised |-> FALSE]

(* number of invoke() calls explored *)
MaxInvocations == 3

(* bundles a caller can hand in that no invocation of this workflow returned *)
ForeignBundles == {Bundle(0, <<>>), Bundle(0, ThinkingPlan)}

(* invoke()'s preparation argument: None, {} or a bundle *)
Preparations == {<<>>, <<EmptyDict>>} \cup {<<b>> : b \in awaited \cup ForeignBundles}

(* a world state no update cycle runs on *)
GateUnused ==
    /\ characters = InitialCharacters
    /\ progression = NoPlan
    /\ stored = [characters |-> InitialCharacters, progression |-> NoPlan]
    /\ pc = "idle"
    /\ new_content = <<>>
    /\ applied = 0
    /\ entry = 0
    /\ completions = [i \in 0..1 |-> 0]
    /\ last = NoLast

(* __init__: the step graph is built when enable_langgraph is set and the  *)
(* library is importable                                                   *)
WorkflowInit ==
    /\ using_langgraph \in BOOLEAN
    /\ thinking_engine \in BOOLEAN
    /\ WorkflowIdle
    /\ GateUnused
    /\ MergeUnused
    /\ ThinkingUnused
    /\ TargetUnused
    /\ GenerationUnused
    /\ OutlineUnused
    /\ StreamsUnused
    /\ SetupUnused
    /\ UpdateUnused
    /\ PrepareUnused
    /\ AliasUnused
    /\ LimitsUnused
    /\ StoreUnused

(* invoke(approved, preparation): the initial state is built and the      *)
(* executor starts at prepare                                             *)
Invoke ==
    /\ node \in {"idle", "END", "raised"}
    /\ invocations < MaxInvocations
    /\ \E approved \in BOOLEAN, preparation \in Preparations :
         /\ input' = Input(approved, preparation)
         /\ state' = IF preparation = <<>>
                     THEN [approved |-> approved]
                     ELSE [approved |-> approved, preparation |-> preparation[1]]
    /\ node' = "prepare"
    /\ steps' = <<>>
    /\ calls' = <<>>
    /\ passed' = <<>>
    /\ outcome' = "none"
    /\ invocations' = invocations + 1
    /\ UNCHANGED <<using_langgraph, thinking_engine, serial, awaited>>
    /\ UNCHANGED outsideWorkflow

NodePrepare ==
    /\ node = "prepare"
    /\ \E out \in PrepareOutcomes(thinking_engine) :
       \E got \in {_node_prepare(state, thinking_engine, out, serial)} :
         /\ state' = DictUpdate(state, got.update)
         /\ calls' = calls \o got.calls
         /\ serial' = serial + got.produced
    /\ steps' = Append(steps, "prepare")
    /\ node' = "review"
    /\ UNCHANGED <<using_langgraph, thinking_engine, input, passed, outcome, awaited,
                   invocations>>
    /\ UNCHANGED outsideWorkflow

(* review, then the conditional edge (_route_after_review) or the         *)
(* fallback's test of awaiting_approval                                   *)
NodeReview ==
    /\ node = "review"
    /\ state' = DictUpdate(state, _node_review(state))
    /\ steps' = Append(steps, "review")
    /\ node' = IF _route_after_review(state') = "await" THEN "END" ELSE "generate"
    /\ awaited' = IF _route_after_review(state') = "await" /\ HasPreparation(state')
                  THEN awaited \cup {state'.preparation}
                  ELSE awaited
    /\ UNCHANGED <<using_langgraph, thinking_engine, input, calls, passed, outcome, serial,
                   invocations>>
    /\ UNCHANGED outsideWorkflow

(* generate; the step graph's edge leads to persist whatever the node     *)
(* returned, the fallback returns when the state holds an error           *)
NodeGenerate ==
    /\ node = "generate"
    /\ \E out \in GenerateOutcomes :
       \E got \in {_node_generate(state, out)} :
         /\ state' = DictUpdate(state, got.update)
         /\ calls' = calls \o got.calls
         /\ passed' = passed \o got.passed
         /\ outcome' = got.outcome
    /\ steps' = Append(steps, "generate")
    /\ node' = IF ~using_langgraph /\ HasError(state') THEN "END" ELSE "persist"
    /\ UNCHANGED <<using_langgraph, thinking_engine, input, serial, awaited, invocations>>
    /\ UNCHANGED outsideWorkflow

NodePersist ==
    /\ node = "persist"
    /\ \E out \in PersistOutcomes :
       \E got \in {_node_persist(state, out)} :
         /\ state' = DictUpdate(state, got.update)
         /\ calls' = calls \o got.calls
         /\ node' = IF got.raised THEN "raised" ELSE "END"
    /\ steps' = Append(steps, "persist")
    /\ UNCHANGED <<using_langgraph, thinking_engine, input, passed, outcome, serial, awaited,
                   invocations>>
    /\ UNCHANGED outsideWorkflow

WorkflowNext == Invoke \/ NodePrepare \/ NodeReview \/ NodeGenerate \/ NodePersist

SpecWorkflow == WorkflowInit /\ [][WorkflowNext]_vars


(***************************************************************************)
(* Properties of the approval workflow.                                    *)
(***************************************************************************)
(* invoke() has returned a state / has returned or raised *)
Returned == node = "END"
Finished == node \in {"END", "raised"}

Called(name) == \E i \in 1..Len(calls) : calls[i] = name
TimesCalled(name) == Cardinality({i \in 1..Len(calls) : calls[i] = name})
Ran(step) == \E i \in 1..Len(steps) : steps[i] = step

AwaitingApproval == Returned /\ IsTrue(state, "awaiting_approval")

(* the bundle has a non-empty thinking_plan, an engine is present and the *)
(* caller has not approved                                                *)
PlanUnapproved ==
    /\ HasPreparation(state)
    /\ state.preparation.thinking_plan # <<>>
    /\ thinking_engine
    /\ ~input.approved

NothingGenerated ==
    /\ ~Called("generate_from_plan")
    /\ ~Called("save_chapter")
    /\ ~Called("update_world_state")
    /\ ~Ran("generate")
    /\ ~Ran("persist")
    /\ "saved_path" \notin DOMAIN state

(* the invocation went past the review with a valid preparation *)
Proceeded == Finished /\ HasPreparation(state) /\ ~IsTrue(state, "awaiting_approval")

(* C8 as stated: the invocation awaits approval exactly when the bundle    *)
(* has a plan, an engine is present and approved is false, and then       *)
(* nothing is generated or saved; otherwise, with a valid preparation, it *)
(* runs the generate and the persist step.                                *)
C8_Original ==
    /\ Returned => (AwaitingApproval <=> PlanUnapproved)
    /\ AwaitingApproval => NothingGenerated
    /\ Proceeded => Ran("generate") /\ Ran("persist")

(* C8: the invocation awaits approval exactly when the bundle has a plan,  *)
(* an engine is present and approved is false, and then nothing is        *)
(* generated or saved; otherwise, with a valid preparation, it calls      *)
(* generate_from_plan, saves the chapter when the stream yielded a        *)
(* structured result, and ends with an error and nothing saved when it    *)
(* did not.                                                               *)
C8_AwaitsExactlyWhenPlanUnapproved ==
    /\ Returned => (AwaitingApproval <=> PlanUnapproved)
    /\ AwaitingApproval => NothingGenerated
    /\ Proceeded =>
        /\ Ran("generate")
        /\ TimesCalled("generate_from_plan") = 1
        /\ outcome = "result" =>
            /\ Ran("persist")
            /\ Called("save_chapter")
            /\ Returned => "saved_path" \in DOMAIN state
        /\ outcome # "result" =>
            /\ ~Called("save_chapter")
            /\ ~Called("update_world_state")
            /\ "saved_path" \notin DOMAIN state
            /\ HasError(state)

C8_Witness ==
    /\ AwaitingApproval
    /\ PlanUnapproved
    /\ Called("prepare_writing")
    /\ state.plan_text = "plan display"

(* invoke(approved=True, preparation=bundle) with a bundle an earlier     *)
(* invocation returned while awaiting approval                            *)
Resumed ==
    /\ node # "idle"
    /\ input.approved
    /\ input.preparation # <<>>
    /\ DOMAIN input.preparation[1] # {}
    /\ input.preparation[1] \in awaited

NotPreparedAgain ==
    /\ ~Called("prepare_writing")
    /\ ~Called("_run_thinking")
    /\ ~Called("_run_character_action_graph")

SameBundlePassed ==
    /\ \A i \in 1..Len(passed) : passed[i] = input.preparation[1]
    /\ Finished => passed = <<input.preparation[1]>>

(* C9 as stated: a resumed invocation does not prepare again, hands the   *)
(* same bundle to generate_from_plan, and returns awaiting_approval=false *)
(* and a saved_path.                                                      *)
C9_Original ==
    Resumed =>
        /\ NotPreparedAgain
        /\ SameBundlePassed
        /\ Returned => /\ state.awaiting_approval = FALSE
                       /\ "saved_path" \in DOMAIN state

(* C9: a resumed invocation does not prepare again, hands the same bundle *)
(* to generate_from_plan, and returns awaiting_approval=false; the        *)
(* returned state has a saved_path when the stream yielded a structured   *)
(* result, and an error and no saved_path when it did not.                *)
C9_ResumesAtGeneration ==
    Resumed =>
        /\ NotPreparedAgain
        /\ SameBundlePassed
        /\ Returned =>
            /\ state.awaiting_approval = FALSE
            /\ outcome = "result" => "saved_path" \in DOMAIN state
            /\ outcome # "result" => HasError(state) /\ "saved_path" \notin DOMAIN state

C9_Witness ==
    /\ Resumed
    /\ Returned
    /\ passed = <<input.preparation[1]>>
    /\ state.preparation = input.preparation[1]
    /\ "saved_path" \in DOMAIN state

(* C10 as stated: when the generate_from_plan stream ends without a dict, *)
(* the invocation returns the error "生成阶段未返回结果", the persist step  *)
(* does not run, nothing is saved, the world state is not updated, and    *)
(* generate_from_plan was called exactly once.                            *)
C10_Original ==
    (Returned /\ outcome = "empty") =>
        /\ state.error = "generate returned nothing"
        /\ ~Ran("persist")
        /\ ~Called("save_chapter")
        /\ ~Called("update_world_state")
        /\ TimesCalled("generate_from_plan") = 1


(***************************************************************************)
(* The two executors as functions of the initial state and of what the    *)
(* three steps' calls do: [node, state, steps].  graph = TRUE follows the *)
(* edges of _build_graph, graph = FALSE the tests of _invoke_fallback.    *)
(***************************************************************************)
RunPersist(st, ran, so) ==
    [node |-> IF _node_persist(st, so).raised THEN "raised" ELSE "END",
     state |-> DictUpdate(st, _node_persist(st, so).update),
     steps |-> Append(ran, "persist")]

RunGenerated(graph, st, ran, so) ==
    IF ~graph /\ HasError(st)
    THEN [node |-> "END", state |-> st, steps |-> ran]
    ELSE RunPersist(st, ran, so)

RunReviewed(graph, st, ran, go, so) ==
    IF _route_after_review(st) = "await"
    THEN [node |-> "END", state |-> st, steps |-> ran]
    ELSE RunGenerated(graph, DictUpdate(st, _node_generate(st, go).update),
                      Append(ran, "generate"), so)

RunPrepared(graph, st, go, so) ==
    RunReviewed(graph, DictUpdate(st, _node_review(st)), <<"prepare", "review">>, go, so)

Run(graph, st, engine, n, po, go, so) ==
    RunPrepared(graph, DictUpdate(st, _node_prepare(st, engine, po, n).update), go, so)

(* the part of the final state the caller reads *)
FinalKeys == {"awaiting_approval", "result", "saved_path", "error"}

Final(run) ==
    [node |-> run.node, steps |-> run.steps,
     state |-> [k \in DOMAIN run.state \cap FinalKeys |-> run.state[k]]]

(* C11 as stated: on the input of the invocation that starts, and for     *)
(* every outcome of the prepare, generate and persist steps, the step     *)
(* graph and the sequential fallback run the same steps in the same order *)
(* and return the same awaiting_approval, result, saved_path and error.   *)
C11_Original ==
    node = "prepare" =>
        \A po \in PrepareOutcomes(thinking_engine), go \in GenerateOutcomes,
           so \in PersistOutcomes :
            Final(Run(TRUE, state, thinking_engine, serial, po, go, so))
                = Final(Run(FALSE, state, thinking_engine, serial, po, go, so))

(***************************************************************************)
(* The character merger: bounded collections and relationships             *)
(* (WorldStateUpdateService.update, chapter_workflow.py:326-488;           *)
(* ChapterGenerator._dedupe_keep_order, _dedupe_action_history,            *)
(* _apply_relationship_updates; StoryPipelineService._normalize_world_state)*)
(*                                                                         *)
(* A JSON value found where a list is expected is a record [t, items]:     *)
(* t is "list", "null", "int" or "absent" (the key is missing) and items   *)
(* holds the elements of a list.  An element of a list of entries carries  *)
(* isdict, and text = str(element) when it is not a dict.  An action entry *)
(* is [chapter, action, reason]: reason stands for the optional text       *)
(* fields reason, outcome, impact, location and target, which the code     *)
(* treats alike; tags are left out.                                        *)
(***************************************************************************)
ActionHistoryCap == 40

ShortTermCap == 30

ShortTermTake == 6

StatusTailLen == 2

InitialStatusLimit == 30

InitialShortTermLimit == 30

(* the i-th distinct text *)
Txt(i) == <<ToString(i)>>

(* the texts numbered a..b, in order *)
Texts(a, b) == [i \in 1..(b - a + 1) |-> Txt(a + i - 1)]

List(items) == [t |-> "list", items |-> items]

Absent == [t |-> "absent", items |-> <<>>]

Null == [t |-> "null", items |-> <<>>]

Number == [t |-> "int", items |-> <<>>]

(* the elements of s at the positions in idx, in order *)
AtPositions(s, idx) ==
    [k \in 1..Cardinality(idx) |-> s[CHOOSE i \in idx : Cardinality({j \in idx : j <= i}) = k]]

(* the loop keeps str(item).strip() of the items where it is not empty, *)
(* and stops once limit of them are kept                                *)
_to_text_list(values, limit) ==
    IF values.t # "list" THEN <<>>
    ELSE IF limit > 0
    THEN Head_n(AtPositions([i \in 1..Len(values.items) |-> Strip(values.items[i])],
                            {i \in 1..Len(values.items) : Strip(values.items[i]) # <<>>}), limit)
    ELSE AtPositions([i \in 1..Len(values.items) |-> Strip(values.items[i])],
                     {i \in 1..Len(values.items) : Strip(values.items[i]) # <<>>})

(* the loop keeps a stripped value at its first occurrence: when it is not *)
(* empty and no earlier value strips to the same text                     *)
_dedupe_keep_order(values) ==
    AtPositions([i \in 1..Len(values) |-> Strip(values[i])],
                {i \in 1..Len(values) :
                    /\ Strip(values[i]) # <<>>
                    /\ \A j \in 1..(i - 1) : Strip(values[j]) # Strip(values[i])})

(* the item _dedupe_action_history builds from a dict; its key is the same fields *)
NormalAction(raw) ==
    [chapter |-> raw.chapter, action |-> Strip(raw.action), reason |-> Strip(raw.reason)]

(* an entry is kept at its first occurrence: when its action is not empty *)
(* and no earlier entry has the same key                                  *)
DedupeActions(entries) ==
    AtPositions([i \in 1..Len(entries) |-> NormalAction(entries[i])],
                {i \in 1..Len(entries) :
                    /\ NormalAction(entries[i]).action # <<>>
                    /\ \A j \in 1..(i - 1) : NormalAction(entries[j]) # NormalAction(entries[i])})

_dedupe_action_history(entries, limit) ==
    IF limit > 0 THEN Tail_n(DedupeActions(entries), limit) ELSE DedupeActions(entries)

(* "第{chapter}章:{action}；动机:{reason}" *)
_format_action_history_entry(item) ==
    <<"ch", ToString(item.chapter), ":">> \o item.action
        \o (IF item.reason # <<>> THEN <<";", "why", ":">> \o item.reason ELSE <<>>)

(* status_entries of the loop body *)
MergedStatusEntries(update) ==
    (IF update.status_change # <<>> THEN <<Strip(update.status_change)>> ELSE <<>>)
    \o (IF update.status_entries.t = "list" THEN StripNonEmpty(update.status_entries.items) ELSE <<>>)

ActionText(raw) ==
    IF ~raw.isdict THEN Strip(raw.text)
    ELSE IF Strip(raw.action) # <<>> THEN Strip(raw.action) ELSE Strip(raw.summary)

(* action_entries of the loop body, stamped with latest_chapter_num *)
RECURSIVE ActionEntries(_, _)
ActionEntries(raws, chapter) ==
    IF raws = <<>> THEN <<>>
    ELSE (IF ActionText(Head(raws)) # <<>>
          THEN <<[chapter |-> chapter, action |-> ActionText(Head(raws)),
                  reason |-> IF Head(raws).isdict THEN Strip(Head(raws).reason) ELSE <<>>]>>
          ELSE <<>>)
         \o ActionEntries(Tail(raws), chapter)

UpdateActions(update, chapter) ==
    IF update.action_history_entries.t = "list"
    THEN ActionEntries(update.action_history_entries.items, chapter) ELSE <<>>

(* short_memories of the loop body: the payload's first six, the last two *)
(* status entries and the log line of the first action                    *)
ShortMemories(update, chapter) ==
    _to_text_list(update.short_term, ShortTermTake)
    \o (IF MergedStatusEntries(update) # <<>>
        THEN Tail_n(MergedStatusEntries(update), StatusTailLen) ELSE <<>>)
    \o (IF UpdateActions(update, chapter) # <<>>
        THEN <<_format_action_history_entry(UpdateActions(update, chapter)[1])>> ELSE <<>>)

(* 未知 *)
UnknownRelation == <<"unknown">>

RelationType(u) == Strip(IF u.relation_type # <<>> THEN u.relation_type ELSE u.type)

Existing(rels, target) == {i \in 1..Len(rels) : rels[i].target = target}

First(S) == CHOOSE i \in S : \A j \in S : i <= j

(* a variant that never looks the target up *)
UpsertAlwaysAppends(rels, u) ==
    IF ~u.isdict \/ Strip(u.target) = <<>> THEN rels
    ELSE Append(rels, [target |-> Strip(u.target),
                       relation_type |-> IF RelationType(u) # <<>> THEN RelationType(u)
                                         ELSE UnknownRelation,
                       description |-> Strip(u.description)])

UpsertRelationship(rels, u) ==
    IF ~u.isdict \/ Strip(u.target) = <<>> THEN rels
    ELSE IF Existing(rels, Strip(u.target)) = {}
    THEN Append(rels, [target |-> Strip(u.target),
                       relation_type |-> IF RelationType(u) # <<>> THEN RelationType(u)
                                         ELSE UnknownRelation,
                       description |-> Strip(u.description)])
    ELSE [rels EXCEPT ![First(Existing(rels, Strip(u.target)))] =
              [@ EXCEPT !.relation_type = IF RelationType(u) # <<>> THEN RelationType(u) ELSE @,
                        !.description = IF Strip(u.description) # <<>>
                                        THEN Strip(u.description) ELSE @]]

RECURSIVE _apply_relationship_updates(_, _)
_apply_relationship_updates(rels, relationship_updates) ==
    IF relationship_updates = <<>> THEN rels
    ELSE _apply_relationship_updates(UpsertRelationship(rels, Head(relationship_updates)),
                                     Tail(relationship_updates))

(* the collections the loop body has written when execution reaches new_abilities *)
MergeCollections(char, update, chapter) ==
    [char EXCEPT
        !.current_status =
            IF MergedStatusEntries(update) # <<>>
            THEN Tail_n(@ \o MergedStatusEntries(update), StatusCap) ELSE @,
        !.action_history =
            IF UpdateActions(update, chapter) # <<>>
            THEN _dedupe_action_history(@ \o UpdateActions(update, chapter), ActionHistoryCap)
            ELSE @,
        !.memory_short_term =
            IF ShortMemories(update, chapter) # <<>>
            THEN Tail_n(_dedupe_keep_order(@ \o ShortMemories(update, chapter)), ShortTermCap)
            ELSE @]

(* iterating update["new_abilities"] raises TypeError for a truthy value that is not iterable *)
Raises(update) == update.new_abilities.t = "int"

MergeAbilities(char, update) ==
    [char EXCEPT
        !.abilities =
            IF update.new_abilities.t = "list" /\ update.new_abilities.items # <<>>
            THEN _dedupe_keep_order(@ \o StripNonEmpty(update.new_abilities.items)) ELSE @,
        !.relationships =
            IF update.relationship_updates.t = "list"
            THEN _apply_relationship_updates(@, update.relationship_updates.items) ELSE @]

(* the loop body for one character the update names: [char, raised] *)
MergeMemory(char, update, chapter) ==
    [char |-> IF Raises(update) THEN MergeCollections(char, update, chapter)
              ELSE MergeAbilities(MergeCollections(char, update, chapter), update),
     raised |-> Raises(update)]

(* the inner loop over world_data["characters"] from position i: [doc, raised] *)
RECURSIVE MergeInto(_, _, _, _)
MergeInto(doc, i, update, chapter) ==
    IF i > Len(doc) THEN [doc |-> doc, raised |-> FALSE]
    ELSE IF doc[i].name # update.name THEN MergeInto(doc, i + 1, update, chapter)
    ELSE IF MergeMemory(doc[i], update, chapter).raised
    THEN [doc |-> [doc EXCEPT ![i] = MergeMemory(doc[i], update, chapter).char], raised |-> TRUE]
    ELSE MergeInto([doc EXCEPT ![i] = MergeMemory(doc[i], update, chapter).char],
                   i + 1, update, chapter)

(* one pass of the loop over updates["character_updates"] *)
MergeUpdate(doc, update, chapter) ==
    IF ~update.isdict THEN [doc |-> doc, raised |-> FALSE]
    ELSE MergeInto(doc, 1, update, chapter)

(***************************************************************************)
(* The initializer: StoryPipelineService._normalize_world_state.           *)
(***************************************************************************)
CharactersLimit == 20

AbilitiesLimit == 20

Rel(target, relation_type, type, description) ==
    [isdict |-> TRUE, target |-> target, relation_type |-> relation_type, type |-> type,
     description |-> description]

NotADict == [isdict |-> FALSE, target |-> <<>>, relation_type |-> <<>>, type |-> <<>>,
             description |-> <<>>]

RECURSIVE NormalizeRelationships(_)
NormalizeRelationships(rels) ==
    IF rels = <<>> THEN <<>>
    ELSE (IF Head(rels).isdict /\ Strip(Head(rels).target) # <<>>
          THEN <<[target |-> Strip(Head(rels).target),
                  relation_type |-> IF Strip(Head(rels).relation_type) # <<>>
                                    THEN Strip(Head(rels).relation_type) ELSE UnknownRelation,
                  description |-> Strip(Head(rels).description)]>>
          ELSE <<>>)
         \o NormalizeRelationships(Tail(rels))

NormalizeCharacter(raw) ==
    [name |-> Strip(raw.name),
     abilities |-> _to_text_list(raw.abilities, AbilitiesLimit),
     relationships |-> NormalizeRelationships(raw.relationships),
     current_status |-> _to_text_list(raw.current_status, InitialStatusLimit),
     action_history |-> IF raw.action_history.t = "list" THEN raw.action_history.items ELSE <<>>,
     memory_short_term |-> _to_text_list(raw.memory_short_term, InitialShortTermLimit)]

RECURSIVE NormalizeCharacters(_)
NormalizeCharacters(raws) ==
    IF raws = <<>> THEN <<>>
    ELSE (IF Head(raws).isdict /\ Strip(Head(raws).name) # <<>>
          THEN <<NormalizeCharacter(Head(raws))>> ELSE <<>>)
         \o NormalizeCharacters(Tail(raws))

_normalize_world_state(raw) == NormalizeCharacters(Head_n(raw, CharactersLimit))

(***************************************************************************)
(* Fixtures of the merger: the raw world states handed to the initializer  *)
(* and the character_updates entries a backend may send.                   *)
(***************************************************************************)
Elder == <<"Elder">>

Stranger == <<"Envoy">>

(* 合作, 盟友, 敌对 *)
Partner == <<"partner">>

Ally == <<"ally">>

Foe == <<"foe">>

(* 暂时联手, 互利同盟升级 *)
Pact == <<"pact">>

Upgraded == <<"upgraded">>

Blank == <<" ">>

ActionRecord(chapter, action, reason) == [chapter |-> chapter, action |-> action, reason |-> reason]

RawCharacter(name, statuses, actions, memories, rels) ==
    [isdict |-> TRUE, name |-> name, abilities |-> List(<<>>), relationships |-> rels,
     current_status |-> List(Texts(1, statuses)),
     action_history |-> List([i \in 1..actions |-> ActionRecord(1, Txt(i), <<>>)]),
     memory_short_term |-> List(Texts(1, memories))]

RawNonDict ==
    [isdict |-> FALSE, name |-> <<>>, abilities |-> Null, relationships |-> <<>>,
     current_status |-> Null, action_history |-> Null, memory_short_term |-> Null]

OneRelationship == <<Rel(Npc, Partner, <<>>, Pact)>>

TwoRelationships == <<Rel(Npc \o Blank, Partner, <<>>, Pact), NotADict, Rel(Elder, <<>>, <<>>, <<>>)>>

InitialRawWorlds ==
    { <<RawCharacter(Hero, 0, 0, 0, <<>>), RawCharacter(Npc, 0, 0, 0, <<>>)>>,
      <<RawCharacter(Hero, StatusCap - 1, ActionHistoryCap - 1, ShortTermCap - 1, OneRelationship),
        RawNonDict, RawCharacter(Npc, 0, 0, 0, <<>>)>>,
      <<RawCharacter(Hero, StatusCap, ActionHistoryCap, ShortTermCap, TwoRelationships),
        RawCharacter(Npc, 0, 0, 0, <<>>)>>,
      <<RawCharacter(Blank \o Hero, InitialStatusLimit + 1, ActionHistoryCap + 1,
                     InitialShortTermLimit + 1, OneRelationship),
        RawCharacter(Npc, 0, 0, 0, <<>>)>> }

(* the j-th new text of the k-th merged entry *)
Fresh(k, j) == Txt(1000 + 10 * k + j)

RawAction(action, summary, reason) ==
    [isdict |-> TRUE, action |-> action, summary |-> summary, reason |-> reason, text |-> <<>>]

(* an element of action_history_entries that is a str *)
TextAction(text) ==
    [isdict |-> FALSE, action |-> <<>>, summary |-> <<>>, reason |-> <<>>, text |-> text]

Entry(name) ==
    [isdict |-> TRUE, name |-> name, status_change |-> <<>>, status_entries |-> Absent,
     action_history_entries |-> Absent, short_term |-> Absent, new_abilities |-> Absent,
     relationship_updates |-> Absent]

(* a character_updates item that is not a dict *)
NonDictEntry == [Entry(<<>>) EXCEPT !.isdict = FALSE]

OldestOr(list, default) == IF list # <<>> THEN list[1] ELSE default

(* the relationship_updates lists sent *)
RelationshipLists ==
    { <<Rel(Blank \o Npc, Ally, <<>>, Upgraded)>>,
      <<Rel(Npc, <<>>, <<>>, Upgraded)>>,
      <<Rel(Npc, Blank, Foe, <<>>)>>,
      <<Rel(Npc, <<>>, Foe, <<>>)>>,
      <<Rel(Elder, Foe, <<>>, <<>>), NotADict>>,
      <<Rel(Stranger, <<>>, <<>>, Pact), Rel(Stranger, Foe, <<>>, <<>>)>>,
      <<Rel(Blank, Foe, <<>>, Pact)>>,
      <<Rel(<<>>, Ally, <<>>, Pact), Rel(Stranger \o Blank, Ally, <<>>, <<>>)>> }

(* the character_updates entries sent as the k-th merged entry of a run on doc *)
Entries(doc, k) ==
    { [Entry(Hero) EXCEPT !.status_change = Blank \o Fresh(k, 1),
                          !.status_entries = List(<<Fresh(k, 2), Blank>>)],
      [Entry(Hero) EXCEPT !.status_entries = Null],
      [Entry(Hero) EXCEPT !.action_history_entries =
           List(<<RawAction(Fresh(k, 3), <<>>, Fresh(k, 4)), TextAction(Fresh(k, 5)),
                  RawAction(Blank, <<>>, Fresh(k, 4))>>)],
      [Entry(Hero) EXCEPT !.action_history_entries =
           List(<<RawAction(OldestOr(doc[1].action_history, ActionRecord(1, Txt(1), <<>>)).action,
                            <<>>, <<>>),
                  RawAction(<<>>, Fresh(k, 3), <<>>)>>)],
      [Entry(Hero) EXCEPT !.short_term = List(<<Fresh(k, 6), Fresh(k, 7)>>)],
      [Entry(Hero) EXCEPT !.short_term =
           List(<<OldestOr(doc[1].memory_short_term, Txt(1)), Fresh(k, 6)>>)],
      [Entry(Hero) EXCEPT !.short_term = Null, !.action_history_entries = Number],
      [Entry(Hero) EXCEPT !.status_change = Fresh(k, 1), !.new_abilities = Number],
      [Entry(Hero) EXCEPT !.new_abilities = List(<<Fresh(k, 8), Blank>>)],
      [Entry(Npc) EXCEPT !.status_change = Fresh(k, 1)],
      [Entry(Stranger) EXCEPT !.status_change = Fresh(k, 1)],
      NonDictEntry }
    \cup { [Entry(Hero) EXCEPT !.relationship_updates = List(rels)] : rels \in RelationshipLists }

(* the chapter being updated: the one updated before, or the next one *)
Chapters == {1, 2}

MaxMerged == 2

MaxCycles == 2

(***************************************************************************)
(* The merger's update cycle.                                              *)
(***************************************************************************)
NotesCap == 30

(* the whole in-memory document, gen.world_data *)
StateData(chars, notes) == [characters |-> chars, world_state_notes |-> notes]

(* a variant that writes the characters alone *)
SaveCharactersOnly(state_data) ==
    [complete |-> TRUE, data |-> [state_data EXCEPT !.world_state_notes = <<>>]]

(* StorageManager.save_world_state: json.dump of state_data into the file *)
save_world_state(state_data) == [complete |-> TRUE, data |-> state_data]

(* open(filepath, 'w') truncated the file and json.dump did not finish *)
Torn == [complete |-> FALSE, data |-> <<>>]

(* world_updates["world_state_notes"] of the k-th cycle's payload *)
NotesInputs(k) == {Null, List(<<Fresh(k, 9), Blank>>)}

(* the world_state_notes branch of the world_updates block *)
MergeNotes(notes, sent) ==
    IF sent.t = "list" THEN Tail_n(notes \o StripNonEmpty(sent.items), NotesCap) ELSE notes

(* a project whose world state the initializer has just written *)
MergeInit ==
    /\ \E raw \in InitialRawWorlds : origin = _normalize_world_state(raw)
    /\ world_data = origin
    /\ world_state_notes = <<>>
    /\ disk = save_world_state(StateData(origin, <<>>))
    /\ cycle = 0
    /\ stage = "idle"
    /\ latest_chapter_num = 0
    /\ journal = <<>>
    /\ writes = 0
    /\ result = "none"
    /\ GateUnused
    /\ WorkflowUnused
    /\ ThinkingUnused
    /\ TargetUnused
    /\ GenerationUnused
    /\ OutlineUnused
    /\ StreamsUnused
    /\ SetupUnused
    /\ UpdateUnused
    /\ PrepareUnused
    /\ AliasUnused
    /\ LimitsUnused
    /\ StoreUnused

(* update() is entered and the backend's JSON is parsed *)
BeginMerge ==
    /\ stage = "idle"
    /\ cycle < MaxCycles
    /\ cycle' = cycle + 1
    /\ stage' = "merging"
    /\ latest_chapter_num' \in {latest_chapter_num, latest_chapter_num + 1} \cap Chapters
    /\ writes' = 0
    /\ result' = "none"
    /\ UNCHANGED <<origin, world_data, world_state_notes, disk, journal>>
    /\ UNCHANGED outsideMerge

(* one pass of the loop over character_updates; an exception leaves the loop *)
(* for the handler at chapter_workflow.py:577, which returns without saving  *)
MergeEntry ==
    /\ stage = "merging"
    /\ Len(journal) < MaxMerged
    /\ \E update \in Entries(world_data, Len(journal)) :
       \E m \in {MergeUpdate(world_data, update, latest_chapter_num)} :
          /\ world_data' = m.doc
          /\ journal' = Append(journal,
                 [update |-> update,
                  who |-> IF update.isdict
                          THEN {i \in 1..Len(world_data) : world_data[i].name = update.name}
                          ELSE {},
                  status |-> MergedStatusEntries(update),
                  actions |-> UpdateActions(update, latest_chapter_num),
                  short |-> ShortMemories(update, latest_chapter_num),
                  raised |-> m.raised])
          /\ stage' = IF m.raised THEN "idle" ELSE stage
          /\ result' = IF m.raised THEN "failed" ELSE result
    /\ UNCHANGED <<origin, world_state_notes, disk, cycle, latest_chapter_num, writes>>
    /\ UNCHANGED outsideMerge

(* the loop is over: the world_updates block is merged, save_world_state    *)
(* writes the document and update() returns; a write that raises leaves the *)
(* file torn and the handler at chapter_workflow.py:577 returns the failure *)
FinishMerge ==
    /\ stage = "merging"
    /\ \E sent \in NotesInputs(cycle) :
          /\ world_state_notes' = MergeNotes(world_state_notes, sent)
          /\ \E written \in BOOLEAN :
                /\ disk' = IF written
                           THEN save_world_state(StateData(world_data, world_state_notes'))
                           ELSE Torn
                /\ result' = IF written THEN "updated" ELSE "failed"
    /\ writes' = writes + 1
    /\ stage' = "idle"
    /\ UNCHANGED <<origin, world_data, cycle, latest_chapter_num, journal>>
    /\ UNCHANGED outsideMerge

MergeNext == BeginMerge \/ MergeEntry \/ FinishMerge

SpecMerge == MergeInit /\ [][MergeNext]_vars

(***************************************************************************)
(* Claims about the character merger.                                      *)
(***************************************************************************)
WithinCaps(char) ==
    /\ Len(char.action_history) <= ActionHistoryCap
    /\ Len(char.memory_short_term) <= ShortTermCap
    /\ Len(char.current_status) <= StatusCap

(* C12 as stated: after any sequence of character-update merges, starting *)
(* from any world state the initializer can produce, every character has  *)
(* at most 40 action_history, 30 memory_short_term and 10 current_status  *)
(* entries.                                                               *)
C12_Original ==
    journal # <<>> => \A i \in 1..Len(world_data) : WithinCaps(world_data[i])

Collections == {"current_status", "action_history", "memory_short_term"}

CapOf(c) ==
    CASE c = "current_status" -> StatusCap
      [] c = "action_history" -> ActionHistoryCap
      [] OTHER -> ShortTermCap

(* what the entry of a journal record appended to collection c *)
BatchOf(rec, c) ==
    CASE c = "current_status" -> rec.status
      [] c = "action_history" -> rec.actions
      [] OTHER -> rec.short

(* what was appended to collection c of character i: the initializer's    *)
(* list at position 1, the batch of the k-th merged entry at position k+1 *)
Appended(i, c) ==
    [k \in 1..(Len(journal) + 1) |->
        IF k = 1 THEN origin[i][c]
        ELSE IF i \in journal[k - 1].who THEN BatchOf(journal[k - 1], c) ELSE <<>>]

Elements(list) == {list[p] : p \in 1..Len(list)}

Ever(i, c) == UNION {Elements(Appended(i, c)[k]) : k \in 1..(Len(journal) + 1)}

(* the last time x was appended to collection c of character i *)
LastAppended(x, i, c) ==
    CHOOSE k \in 1..(Len(journal) + 1) :
        /\ x \in Elements(Appended(i, c)[k])
        /\ \A later \in (k + 1)..(Len(journal) + 1) : x \notin Elements(Appended(i, c)[later])

(* merges appended to the collection and more was appended than it may hold *)
PushedPastCap(i, c) ==
    /\ \E k \in 2..(Len(journal) + 1) : Appended(i, c)[k] # <<>>
    /\ Cardinality(Ever(i, c)) > CapOf(c)

MostRecentKept(i, c) ==
    /\ \A x \in Ever(i, c) : \A y \in Elements(world_data[i][c]) :
           LastAppended(y, i, c) < LastAppended(x, i, c) => x \in Elements(world_data[i][c])
    /\ \A p \in 1..Len(world_data[i][c]) : \A q \in (p + 1)..Len(world_data[i][c]) :
           LastAppended(world_data[i][c][p], i, c) <= LastAppended(world_data[i][c][q], i, c)

(* C13 as stated: when merges push action_history, memory_short_term or   *)
(* current_status past its cap, the entries retained are the most recently*)
(* appended ones, in append order: an entry appended (or re-appended) by a*)
(* later update is never evicted while an entry appended only by an       *)
(* earlier update is kept.                                                *)
C13_Original ==
    \A i \in 1..Len(world_data) : \A c \in Collections :
        PushedPastCap(i, c) => MostRecentKept(i, c)

DistinctTargets(rels) ==
    \A p \in 1..Len(rels) : \A q \in 1..Len(rels) : rels[p].target = rels[q].target => p = q

(* the relation type an update sends: under relation_type, or under the *)
(* older key type when relation_type is missing or empty                *)
SentType(u) == IF u.relation_type # <<>> THEN u.relation_type ELSE u.type

Overwritten(old, new) == IF Strip(new) # <<>> THEN Strip(new) ELSE old

(* what the claim says one relationship update u does to the list r0 *)
UpsertedAsClaimed(r0, u, r1) ==
    IF Strip(u.target) = <<>> THEN r1 = r0
    ELSE IF \E p \in 1..Len(r0) : r0[p].target = Strip(u.target)
    THEN /\ Len(r1) = Len(r0)
         /\ \A p \in 1..Len(r0) :
               IF r0[p].target = Strip(u.target)
               THEN r1[p] = [target |-> r0[p].target,
                             relation_type |-> Overwritten(r0[p].relation_type, SentType(u)),
                             description |-> Overwritten(r0[p].description, u.description)]
               ELSE r1[p] = r0[p]
    ELSE /\ Len(r1) = Len(r0) + 1
         /\ SubSeq(r1, 1, Len(r0)) = r0
         /\ r1[Len(r1)].target = Strip(u.target)

(* the entry merged by this step sent relationship_updates for character i *)
RelationshipsSent(i) ==
    /\ Len(journal') = Len(journal) + 1
    /\ i \in journal'[Len(journal')].who
    /\ ~journal'[Len(journal')].raised
    /\ journal'[Len(journal')].update.relationship_updates.t = "list"

SentList == journal'[Len(journal')].update.relationship_updates.items

(* C14: after any sequence of relationship updates applied to a character *)
(* whose relationships start with distinct targets, there is at most one  *)
(* entry per target; an update for an existing target overwrites          *)
(* relation_type and description in place when the new value is non-empty *)
(* and keeps the earlier value when it is empty; an update for a new      *)
(* target appends exactly one entry; an update with an empty target       *)
(* changes nothing.                                                       *)
C14_UpsertByTarget ==
    [][\A i \in 1..Len(world_data) :
          DistinctTargets(origin[i].relationships) =>
            /\ DistinctTargets(world_data'[i].relationships)
            /\ RelationshipsSent(i) =>
                 /\ world_data'[i].relationships
                      = _apply_relationship_updates(world_data[i].relationships, SentList)
                 /\ \A k \in 1..Len(SentList) :
                      SentList[k].isdict =>
                        UpsertedAsClaimed(
                          _apply_relationship_updates(world_data[i].relationships,
                                                      SubSeq(SentList, 1, k - 1)),
                          SentList[k],
                          _apply_relationship_updates(world_data[i].relationships,
                                                      SubSeq(SentList, 1, k)))]_vars

(* an existing target was overwritten in place and a new target appended *)
C14_Witness ==
    /\ Len(journal) = 2
    /\ \A k \in 1..2 : journal[k].update.relationship_updates.t = "list" /\ journal[k].who = {1}
    /\ Len(origin[1].relationships) = 2
    /\ Len(world_data[1].relationships) = 3
    /\ world_data[1].relationships[1] = [target |-> Npc, relation_type |-> Ally,
                                         description |-> Upgraded]
    /\ world_data[1].relationships[3].target = Stranger

(* the cycle of this step returns updated=true *)
ReturnsUpdated == stage = "merging" /\ stage' = "idle" /\ result' = "updated"

Malformed(update) ==
    \/ ~update.isdict
    \/ \A i \in 1..Len(origin) : origin[i].name # update.name
    \/ \E f \in {"status_entries", "action_history_entries", "short_term", "new_abilities",
                 "relationship_updates"} : update[f].t \in {"null", "int"}
    \/ \E k \in 1..Len(update.relationship_updates.items) :
          \/ ~update.relationship_updates.items[k].isdict
          \/ Strip(update.relationship_updates.items[k].target) = <<>>
    \/ \E k \in 1..Len(update.action_history_entries.items) :
          ActionText(update.action_history_entries.items[k]) = <<>>

(* C20 as stated: in a character-update merge a malformed entry affects   *)
(* only itself: the loop goes on, so every well-formed entry of the same  *)
(* payload is still merged and the document is still saved.               *)
C20_Original ==
    \A k \in 1..Len(journal) : Malformed(journal[k].update) => ~journal[k].raised

(***************************************************************************)
(* The planning cache: PlotThinkingEngine.analyze_chapter                  *)
(* (generation/thinking.py:58-148) and tools/thinking_tools.py.            *)
(* A thinking mode is a text of word tokens; json.dumps and sha1 of the    *)
(* key payload are modelled as the payload itself (no two payloads share a *)
(* digest).                                                                *)
(***************************************************************************)
(* max(500, config.thinking_world_context_chars) and                       *)
(* max(500, config.thinking_previous_context_chars) at their least values  *)
world_context_chars == 500

previous_context_chars == 500

clip_tail(text, max_chars) ==
    IF text = <<>> THEN <<>>
    ELSE IF max_chars <= 0 THEN text
    ELSE IF Len(text) <= max_chars THEN text
    ELSE Tail_n(text, max_chars)

(* str.lower() on the mode vocabulary *)
LowerMode(tok) ==
    CASE tok = "FAST" -> "fast"
      [] tok = "DEEP" -> "deep"
      [] tok = "Auto" -> "auto"
      [] OTHER -> tok

normalize_thinking_mode(mode) ==
    IF [i \in 1..Len(Strip(IF mode = <<>> THEN <<"auto">> ELSE mode)) |->
            LowerMode(Strip(IF mode = <<>> THEN <<"auto">> ELSE mode)[i])]
         \in {<<"auto">>, <<"fast">>, <<"deep">>}
    THEN [i \in 1..Len(Strip(IF mode = <<>> THEN <<"auto">> ELSE mode)) |->
            LowerMode(Strip(IF mode = <<>> THEN <<"auto">> ELSE mode)[i])]
    ELSE <<"auto">>

(* resolved_mode of analyze_chapter *)
ResolvedMode(thinking_mode, is_append) ==
    IF normalize_thinking_mode(thinking_mode) = <<"auto">>
    THEN (IF is_append THEN <<"fast">> ELSE <<"deep">>)
    ELSE normalize_thinking_mode(thinking_mode)

(* a variant whose digest leaves the world context out *)
KeyWithoutWorld(chapter_num, thinking_mode, outline_info, world_context, previous_content) ==
    [chapter_num |-> chapter_num, thinking_mode |-> thinking_mode,
     digest |-> [chapter_num |-> chapter_num,
                 thinking_mode |-> normalize_thinking_mode(thinking_mode),
                 outline_info |-> outline_info, world_context |-> <<>>,
                 previous_content |-> previous_content]]

build_thinking_cache_key(chapter_num, thinking_mode, outline_info, world_context, previous_content) ==
    [chapter_num |-> chapter_num, thinking_mode |-> thinking_mode,
     digest |-> [chapter_num |-> chapter_num,
                 thinking_mode |-> normalize_thinking_mode(thinking_mode),
                 outline_info |-> outline_info, world_context |-> world_context,
                 previous_content |-> previous_content]]

Cached(cache, cache_key) == {p \in 1..Len(cache) : cache[p].key = cache_key}

Without(cache, cache_key) == SelectSeq(cache, LAMBDA e : e.key # cache_key)

(* mutant: a hit returns the plan and leaves the order alone *)
PeekCachedPlan(cache, cache_key) ==
    [cache |-> cache, plan |-> cache[First(Cached(cache, cache_key))].plan]

(* _get_cached_plan on a key that is cached: the entry moves to the end *)
_get_cached_plan(cache, cache_key) ==
    [cache |-> Append(Without(cache, cache_key), cache[First(Cached(cache, cache_key))]),
     plan |-> cache[First(Cached(cache, cache_key))].plan]

(* _save_cached_plan: store, move to the end, evict from the front *)
_save_cached_plan(cache, cache_key, plan, size) ==
    Tail_n(Append(Without(cache, cache_key), [key |-> cache_key, plan |-> plan]), size)

(* the plan parsed from the n-th response of the backend, with its _meta *)
ParsedPlan(n, mode) == [blueprint |-> n, thinking_mode |-> mode]

(* _get_default_plan, with its _meta *)
DefaultPlan(mode) == [blueprint |-> 0, thinking_mode |-> mode]

(* what the backend does when asked: "plan" a response _parse_result      *)
(* accepts, "garbage" one it rejects, "raises" an exception in stream_chat *)
BackendOutcomes == {"plan", "garbage", "raises"}

KeyOf(req) ==
    build_thinking_cache_key(req.chapter_num, ResolvedMode(req.thinking_mode, req.is_append),
                             req.outline_info,
                             clip_tail(req.world_context, world_context_chars),
                             clip_tail(req.previous_content, previous_context_chars))

(* analyze_chapter, consumed to its end: [cache, called, hit, plan] *)
analyze_chapter(cache, size, req, out, n) ==
    IF Cached(cache, KeyOf(req)) # {}
    THEN [cache |-> _get_cached_plan(cache, KeyOf(req)).cache, called |-> FALSE, hit |-> TRUE,
          plan |-> _get_cached_plan(cache, KeyOf(req)).plan]
    ELSE IF out = "plan"
    THEN [cache |-> _save_cached_plan(cache, KeyOf(req),
                        ParsedPlan(n, ResolvedMode(req.thinking_mode, req.is_append)), size),
          called |-> TRUE, hit |-> FALSE,
          plan |-> ParsedPlan(n, ResolvedMode(req.thinking_mode, req.is_append))]
    ELSE [cache |-> cache, called |-> TRUE, hit |-> FALSE,
          plan |-> DefaultPlan(ResolvedMode(req.thinking_mode, req.is_append))]

(* fixtures, after tests/test_thinking_tools.py:132-151 *)
Filler(n, tok) == [i \in 1..n |-> tok]

WorldText == Filler(world_context_chars, "w")

Request ==
    [chapter_num |-> 5,
     outline_info |-> [volume |-> <<"vol1">>, phase |-> <<"mid">>, specific_goal |-> <<"escape">>],
     world_context |-> WorldText, previous_content |-> <<"prev">>,
     is_append |-> TRUE, thinking_mode |-> <<"fast">>]

Requests ==
    { Request,
      [Request EXCEPT !.chapter_num = 6],
      [Request EXCEPT !.thinking_mode = <<" ", "DEEP">>],
      [Request EXCEPT !.thinking_mode = <<"Auto", " ">>],
      [Request EXCEPT !.thinking_mode = <<"slow">>, !.is_append = FALSE],
      [Request EXCEPT !.outline_info.specific_goal = <<"hide">>],
      [Request EXCEPT !.outline_info.volume = <<"vol2">>],
      [Request EXCEPT !.world_context = <<"x">> \o WorldText],
      [Request EXCEPT !.world_context = <<"x">> \o Filler(world_context_chars - 1, "w")],
      [Request EXCEPT !.previous_content = <<>>],
      [Request EXCEPT !.previous_content = Filler(previous_context_chars, "p") \o <<"prev">>] }

CacheSizes == {1, 2}

MaxAnalyses == 3

(* __init__: cache_size = max(1, cache_size or config.thinking_cache_size) *)
ThinkingInit ==
    /\ plan_cache = <<>>
    /\ cache_size \in CacheSizes
    /\ ai_calls = 0
    /\ analyses = <<>>
    /\ GateUnused
    /\ WorkflowUnused
    /\ MergeUnused
    /\ TargetUnused
    /\ GenerationUnused
    /\ OutlineUnused
    /\ StreamsUnused
    /\ SetupUnused
    /\ UpdateUnused
    /\ PrepareUnused
    /\ AliasUnused
    /\ LimitsUnused
    /\ StoreUnused

(* one analyze_chapter call, its generator consumed to the end *)
AnalyzeChapter ==
    /\ Len(analyses) < MaxAnalyses
    /\ \E req \in Requests : \E out \in BackendOutcomes :
       \E done \in {analyze_chapter(plan_cache, cache_size, req, out, ai_calls + 1)} :
          /\ done.hit => out = "plan"    \* a hit does not ask the backend: one branch
          /\ plan_cache' = done.cache
          /\ ai_calls' = IF done.called THEN ai_calls + 1 ELSE ai_calls
          /\ analyses' = Append(analyses,
                 [chapter_num |-> req.chapter_num,
                  mode |-> ResolvedMode(req.thinking_mode, req.is_append),
                  outline_info |-> req.outline_info,
                  world_context |-> clip_tail(req.world_context, world_context_chars),
                  previous_content |-> clip_tail(req.previous_content, previous_context_chars),
                  key |-> KeyOf(req),
                  hit |-> done.hit, called |-> done.called,
                  parsed |-> done.hit \/ out = "plan", plan |-> done.plan])
    /\ UNCHANGED cache_size
    /\ UNCHANGED outsideThinking

ThinkingNext == AnalyzeChapter

SpecThinking == ThinkingInit /\ [][ThinkingNext]_vars

(***************************************************************************)
(* Claims about the planning cache.                                        *)
(***************************************************************************)
(* the five components the claim names, with the outline's goal *)
SameFive(a, b) ==
    /\ a.chapter_num = b.chapter_num
    /\ a.mode = b.mode
    /\ a.outline_info.specific_goal = b.outline_info.specific_goal
    /\ a.world_context = b.world_context
    /\ a.previous_content = b.previous_content

(* the same with the whole outline info: volume, phase and goal *)
SameFiveWhole(a, b) == SameFive(a, b) /\ a.outline_info = b.outline_info

CacheHit(first, second) == second.hit /\ ~second.called /\ second.plan = first.plan

TouchedBetween(i, j) ==
    {analyses[k].key : k \in {m \in (i + 1)..(j - 1) :
                                 analyses[m].parsed /\ analyses[m].key # analyses[i].key}}

MIN_CHAPTER_LENGTH == 3000

TargetMargin == 500

(* (ch_num, ch_len) of _get_latest_chapter; title and content are left out *)
_get_latest_chapter(files) ==
    IF files = <<>> THEN [ch_num |-> 0, ch_len |-> 0, exists |-> FALSE]
    ELSE [ch_num |-> IF files[Len(files)].num < 0 THEN Len(files) ELSE files[Len(files)].num,
          ch_len |-> IF files[Len(files)].readable THEN files[Len(files)].words ELSE 0,
          exists |-> TRUE]

(* a variant that appends whenever the chapter is short *)
AppendWheneverShort(ch_num, ch_len, default_words) ==
    IF ch_len < MIN_CHAPTER_LENGTH
    THEN [mode |-> "append", chapter_num |-> ch_num, chapter_len |-> ch_len,
          target_words |-> MIN_CHAPTER_LENGTH - ch_len + TargetMargin]
    ELSE [mode |-> "new", chapter_num |-> ch_num + 1, chapter_len |-> ch_len,
          target_words |-> default_words + TargetMargin]

_resolve_generation_target(ch_num, ch_len, default_words) ==
    IF ch_len < MIN_CHAPTER_LENGTH /\ ch_num > 0
    THEN [mode |-> "append", chapter_num |-> ch_num, chapter_len |-> ch_len,
          target_words |-> MIN_CHAPTER_LENGTH - ch_len + TargetMargin]
    ELSE [mode |-> "new", chapter_num |-> ch_num + 1, chapter_len |-> ch_len,
          target_words |-> default_words + TargetMargin]

(* config.default_chapter_words and a STORY_DEFAULT_CHAPTER_WORDS override *)
DefaultChapterWords == {3000, 2400}

(* word counts of the content written for a chapter *)
WordCounts == {0, 1200, 2999, 3000, 3001, 4200}

MaxChapters == 3

(* save_chapter(chapter_index, ...): the file of that index is written *)
Written(files, index, words) ==
    IF \E p \in 1..Len(files) : files[p].num = index
    THEN [p \in 1..Len(files) |->
             IF files[p].num = index THEN [files[p] EXCEPT !.words = words] ELSE files[p]]
    ELSE Append(files, [num |-> index, words |-> words, readable |-> TRUE])

TargetInit ==
    /\ chapter_files = <<>>
    /\ default_chapter_words \in DefaultChapterWords
    /\ latest_chapter = [ch_num |-> 0, ch_len |-> 0, exists |-> FALSE]
    /\ target_meta = [mode |-> "none", chapter_num |-> 0, chapter_len |-> 0, target_words |-> 0]
    /\ GateUnused
    /\ WorkflowUnused
    /\ MergeUnused
    /\ ThinkingUnused
    /\ GenerationUnused
    /\ OutlineUnused
    /\ StreamsUnused
    /\ SetupUnused
    /\ UpdateUnused
    /\ PrepareUnused
    /\ AliasUnused
    /\ LimitsUnused
    /\ StoreUnused

(* prepare(): the latest chapter is read (the read may fail with OSError) *)
(* and the target is resolved                                             *)
ResolveTarget ==
    /\ \E readable \in BOOLEAN :
       \E files \in {IF chapter_files = <<>> THEN chapter_files
                     ELSE [chapter_files EXCEPT ![Len(chapter_files)].readable = readable]} :
          /\ latest_chapter' = _get_latest_chapter(files)
          /\ target_meta' = _resolve_generation_target(_get_latest_chapter(files).ch_num,
                                                       _get_latest_chapter(files).ch_len,
                                                       default_chapter_words)
    /\ UNCHANGED <<chapter_files, default_chapter_words>>
    /\ UNCHANGED outsideTarget

(* the chapter of the resolved target is saved with its new content *)
SaveChapter ==
    /\ target_meta.mode # "none"
    /\ target_meta.chapter_num <= MaxChapters
    /\ \E words \in WordCounts :
          chapter_files' = Written(chapter_files, target_meta.chapter_num, words)
    /\ UNCHANGED <<default_chapter_words, latest_chapter, target_meta>>
    /\ UNCHANGED outsideTarget

(* a file whose name does not start with a number is put among the chapters; *)
(* it sorts after the numbered files                                         *)
AddUnnumberedFile ==
    /\ chapter_files # <<>>
    /\ Len(chapter_files) < MaxChapters
    /\ chapter_files[Len(chapter_files)].num >= 0
    /\ \E words \in {1200, 3001} :
          chapter_files' = Append(chapter_files, [num |-> -1, words |-> words, readable |-> TRUE])
    /\ UNCHANGED <<default_chapter_words, latest_chapter, target_meta>>
    /\ UNCHANGED outsideTarget

TargetNext == ResolveTarget \/ SaveChapter \/ AddUnnumberedFile

SpecTarget == TargetInit /\ [][TargetNext]_vars

(* C16: the mode is append exactly when at least one chapter exists and   *)
(* the latest chapter's word count is below 3000; in append mode the      *)
(* target chapter is the latest chapter's number and the target words are *)
(* 3000 - current length + 500 (1200 words give 2300); otherwise the mode *)
(* is new, the target chapter is the latest number + 1 (1 when there is   *)
(* none) and the target words are default_chapter_words + 500.            *)
C16_TargetArithmetic ==
    target_meta.mode # "none" =>
        /\ target_meta.mode = "append" <=> (latest_chapter.exists /\ latest_chapter.ch_len < 3000)
        /\ target_meta.mode = "append" =>
              /\ target_meta.chapter_num = latest_chapter.ch_num
              /\ target_meta.target_words = 3000 - latest_chapter.ch_len + 500
        /\ target_meta.mode # "append" =>
              /\ target_meta.mode = "new"
              /\ target_meta.chapter_num = latest_chapter.ch_num + 1
              /\ target_meta.target_words = default_chapter_words + 500

(* the third chapter holds 1200 words: append 2300 more to it *)
C16_Witness ==
    /\ Len(chapter_files) = 3
    /\ latest_chapter = [ch_num |-> 3, ch_len |-> 1200, exists |-> TRUE]
    /\ target_meta.mode = "append"
    /\ target_meta.chapter_num = 3
    /\ target_meta.target_words = 2300

(***************************************************************************)
(* Generation from a preparation bundle:                                   *)
(* ChapterWritingService.generate_from_plan                                *)
(* (generation/services/chapter_workflow.py:149-198) and                   *)
(* ChapterGenerator._build_generation_prompt (generation/chapter.py:852-   *)
(* 947).  A prompt is the sequence of the values the template interpolates, *)
(* headed by the template used.                                            *)
(***************************************************************************)
AppendTailChars == 2000

ContinuityTailChars == 3000

(* _build_style_prompt (chapter.py:385-389) *)
_build_style_prompt(style_ref) ==
    IF style_ref = <<>> THEN <<>> ELSE <<"style:">> \o style_ref

(* PlotThinkingEngine.format_for_generation: "" for an empty plan, else a *)
(* text computed from the plan alone                                      *)
format_for_generation(plan) ==
    IF plan = <<>> THEN <<>> ELSE <<"storyboard:">> \o plan

(* _format_character_action_for_generation: a text computed from the plan *)
_format_character_action_for_generation(plan) == <<"decisions:">> \o plan

_build_generation_prompt(p, style_prompt, thinking_context, character_action_context) ==
    IF p.mode = "append"
    THEN <<"continue", p.world_context, style_prompt,
           p.outline_info.volume, p.outline_info.phase, p.outline_info.specific_goal,
           thinking_context, character_action_context,
           IF p.realm_rules_context # <<>> THEN <<"rules:">> \o p.realm_rules_context ELSE <<>>,
           p.chapter_num, p.chapter_title, p.chapter_len, p.target_words,
           Tail_n(p.chapter_content, AppendTailChars)>>
    ELSE <<"create", p.chapter_num, p.world_context, style_prompt,
           p.outline_info.volume, p.outline_info.phase, p.outline_info.specific_goal,
           thinking_context, character_action_context,
           IF p.realm_rules_context # <<>> THEN <<"rules:">> \o p.realm_rules_context ELSE <<>>,
           IF p.chapter_content # <<>> THEN Tail_n(p.chapter_content, ContinuityTailChars)
           ELSE <<"opening">>>>

(* the user prompt generate_from_plan builds (chapter_workflow.py:150-185) *)
BuiltPrompt(p, engine) ==
    _build_generation_prompt(
        p,
        _build_style_prompt(p.style_ref),
        IF p.thinking_plan # <<>> /\ engine THEN format_for_generation(p.thinking_plan) ELSE <<>>,
        IF Strip(p.character_action_context) = <<>> /\ p.character_action_plan # <<>>
        THEN _format_character_action_for_generation(p.character_action_plan)
        ELSE Strip(p.character_action_context))

(* the whole call: the prompt is built, then the arguments of              *)
(* gen.ai.stream_chat are evaluated; ChapterGenerator defines no           *)
(* get_generation_system_prompt, so the lookup raises AttributeError and   *)
(* stream_chat is never entered                                            *)
generate_from_plan(p, engine) ==
    [prompt |-> BuiltPrompt(p, engine), sent |-> <<>>, error |-> "AttributeError"]

(* preparation bundles *)
PreparationBundles ==
    [mode : {"append", "new"},
     chapter_num : {2},
     chapter_title : {<<"title">>},
     chapter_content : {<<"so", "far">>},
     chapter_len : {1200},
     target_words : {2300},
     world_context : {<<"world">>},
     outline_info : {[volume |-> <<"v1">>, phase |-> <<"p1">>, specific_goal |-> <<"goal">>]},
     style_ref : {<<>>},
     realm_rules_context : {<<>>, <<"gate">>},
     thinking_plan : {<<>>, <<"shots">>},
     character_action_plan : {<<>>, <<"choices">>},
     character_action_context : {<<>>}]

MaxGenerations == 2

GenerationInit ==
    /\ project = [world |-> 0, chapters |-> 0, outline |-> 0]
    /\ gen_thinking_engine \in BOOLEAN
    /\ generations = <<>>
    /\ GateUnused
    /\ WorkflowUnused
    /\ MergeUnused
    /\ ThinkingUnused
    /\ TargetUnused
    /\ OutlineUnused
    /\ StreamsUnused
    /\ SetupUnused
    /\ UpdateUnused
    /\ PrepareUnused
    /\ AliasUnused
    /\ LimitsUnused
    /\ StoreUnused

(* the stored world state, the chapters or the outline change *)
ChangeProject ==
    /\ \E part \in {"world", "chapters", "outline"} :
          project' = [project EXCEPT ![part] = 1 - @]
    /\ UNCHANGED <<gen_thinking_engine, generations>>
    /\ UNCHANGED outsideGeneration

GenerateFromPlan ==
    /\ Len(generations) < MaxGenerations
    /\ \E p \in PreparationBundles :
          generations' = Append(generations,
              [preparation |-> p] @@ generate_from_plan(p, gen_thinking_engine))
    /\ UNCHANGED <<project, gen_thinking_engine>>
    /\ UNCHANGED outsideGeneration

GenerationNext == ChangeProject \/ GenerateFromPlan

SpecGeneration == GenerationInit /\ [][GenerationNext]_vars

(* C17: generate_from_plan builds its prompt from the bundle alone: two    *)
(* calls with equal bundles send the same system prompt and user prompt to *)
(* the backend, even when the world state, the stored chapters or the      *)
(* outline changed between the calls.                                      *)
C17_Original ==
    \A i, j \in DOMAIN generations :
        generations[i].preparation = generations[j].preparation =>
            /\ generations[i].sent # <<>>
            /\ generations[i].sent = generations[j].sent

(***************************************************************************)
(* The outline resolver: ChapterGenerator._parse_outline_for_chapter       *)
(* (generation/chapter.py:970-1040).  A line of the outline is kept as     *)
(* what the three patterns make of it:                                     *)
(*   kind "vol"    "## title" with an optional range suffix                *)
(*   kind "phase"  "### title" with an optional range suffix               *)
(*   kind "item"   "- **[N]-[M]chapter**: text"; item_pattern allows any   *)
(*                 white space between "-" and "**": marked = TRUE when    *)
(*                 the line is written "- **", FALSE for "-**"             *)
(*   kind "text"   any other non-blank line that does not start with "#"   *)
(*   kind "blank"  an empty line                                           *)
(***************************************************************************)
OpenStart == 0

OpenEnd == 9999

(* start_ch <= chapter_num <= end_ch of a heading *)
InRange(line, n) ==
    IF line.ranged THEN line.lo <= n /\ n <= line.hi ELSE OpenStart <= n /\ n <= OpenEnd

(* start_ch <= chapter_num <= end_ch of a chapter item *)
ItemInRange(line, n) == line.lo <= n /\ n <= line.hi

(* next_line.startswith("#") or next_line.startswith("- **") *)
EndsDetails(line) ==
    \/ line.kind \in {"vol", "phase"}
    \/ line.kind = "item" /\ line.marked

(* the detail lines collected from position idx on *)
RECURSIVE Details(_, _)
Details(lines, idx) ==
    IF idx > Len(lines) THEN <<>>
    ELSE IF lines[idx].kind = "blank" THEN Details(lines, idx + 1)
    ELSE IF EndsDetails(lines[idx]) THEN <<>>
    ELSE <<lines[idx].text>> \o Details(lines, idx + 1)

(* a variant in which a matching volume heading leaves the phase alone *)
KeepsPhase(current_phase) == current_phase

(* current_phase = "" on a matching volume heading *)
PhaseAfterVolume(current_phase) == ""

(* the loop over the lines from position idx on *)
RECURSIVE ScanOutline(_, _, _, _, _)
ScanOutline(lines, idx, n, current_volume, current_phase) ==
    IF idx > Len(lines)
    THEN [volume |-> current_volume, phase |-> current_phase, specific_goal |-> <<>>]
    ELSE IF lines[idx].kind = "vol"
    THEN IF InRange(lines[idx], n)
         THEN ScanOutline(lines, idx + 1, n, lines[idx].text, PhaseAfterVolume(current_phase))
         ELSE ScanOutline(lines, idx + 1, n, current_volume, current_phase)
    ELSE IF lines[idx].kind = "phase"
    THEN IF InRange(lines[idx], n)
         THEN ScanOutline(lines, idx + 1, n, current_volume, lines[idx].text)
         ELSE ScanOutline(lines, idx + 1, n, current_volume, current_phase)
    ELSE IF lines[idx].kind = "item" /\ ItemInRange(lines[idx], n)
    THEN [volume |-> current_volume, phase |-> current_phase,
          specific_goal |-> <<lines[idx].text>> \o Details(lines, idx + 1)]
    ELSE ScanOutline(lines, idx + 1, n, current_volume, current_phase)

_parse_outline_for_chapter(lines, n) == ScanOutline(lines, 1, n, "", "")

(* lines an outline is written from *)
Heading(kind, title, ranged, lo, hi) ==
    [kind |-> kind, text |-> title, ranged |-> ranged, lo |-> lo, hi |-> hi, marked |-> FALSE]

ChapterItem(lo, hi, summary, marked) ==
    [kind |-> "item", text |-> summary, ranged |-> TRUE, lo |-> lo, hi |-> hi, marked |-> marked]

OutlineLines ==
    { Heading("vol", "V1", FALSE, 0, 0),
      Heading("vol", "V2", TRUE, 2, 2),
      Heading("phase", "P1", FALSE, 0, 0),
      Heading("phase", "P2", TRUE, 1, 1),
      ChapterItem(1, 1, "a", TRUE),
      ChapterItem(1, 2, "b", TRUE),
      ChapterItem(2, 2, "c", FALSE),
      ChapterItem(3, 3, "e", FALSE),
      Heading("text", "d", FALSE, 0, 0),
      Heading("blank", "", FALSE, 0, 0) }

OutlineChapters == {1, 2, 3}

MaxLines == 4

OutlineInit ==
    /\ outline_text = <<>>
    /\ resolution = [chapter_num |-> 0, found |-> [volume |-> "", phase |-> "", specific_goal |-> <<>>]]
    /\ GateUnused
    /\ WorkflowUnused
    /\ MergeUnused
    /\ ThinkingUnused
    /\ TargetUnused
    /\ GenerationUnused
    /\ StreamsUnused
    /\ SetupUnused
    /\ UpdateUnused
    /\ PrepareUnused
    /\ AliasUnused
    /\ LimitsUnused
    /\ StoreUnused

(* the outline is written, one line after the other, before any chapter is resolved *)
WriteOutlineLine ==
    /\ resolution.chapter_num = 0
    /\ Len(outline_text) < MaxLines
    /\ \E line \in OutlineLines : outline_text' = Append(outline_text, line)
    /\ UNCHANGED resolution
    /\ UNCHANGED outsideOutline

(* _resolve_generation_target resolves the target chapter against the outline *)
ResolveOutline ==
    /\ \E n \in OutlineChapters :
          resolution' = [chapter_num |-> n, found |-> _parse_outline_for_chapter(outline_text, n)]
    /\ UNCHANGED outline_text
    /\ UNCHANGED outsideOutline

OutlineNext == WriteOutlineLine \/ ResolveOutline

SpecOutline == OutlineInit /\ [][OutlineNext]_vars

(* position of the first chapter item whose range contains chapter n, 0 if none *)
FirstMatch(lines, n) ==
    IF \E i \in 1..Len(lines) : lines[i].kind = "item" /\ ItemInRange(lines[i], n)
    THEN CHOOSE i \in 1..Len(lines) :
            /\ lines[i].kind = "item" /\ ItemInRange(lines[i], n)
            /\ \A j \in 1..(i - 1) : ~(lines[j].kind = "item" /\ ItemInRange(lines[j], n))
    ELSE 0

(* where the headings that count end: before the first match, or at the end *)
ScanEnd(lines, n) == IF FirstMatch(lines, n) = 0 THEN Len(lines) ELSE FirstMatch(lines, n) - 1

(* position of the most recent heading of a kind in from+1..upto whose range *)
(* contains chapter n, 0 if none                                             *)
RecentHeading(lines, kind, from, upto, n) ==
    IF \E i \in (from + 1)..upto : lines[i].kind = kind /\ InRange(lines[i], n)
    THEN CHOOSE i \in (from + 1)..upto :
            /\ lines[i].kind = kind /\ InRange(lines[i], n)
            /\ \A j \in (i + 1)..upto : ~(lines[j].kind = kind /\ InRange(lines[j], n))
    ELSE 0

TitleAt(lines, i) == IF i = 0 THEN "" ELSE lines[i].text

(* the outline with another line at position k *)
WithLine(lines, k, line) == [lines EXCEPT ![k] = line]

(* the outline without its line k *)
WithoutLine(lines, k) == SubSeq(lines, 1, k - 1) \o SubSeq(lines, k + 1, Len(lines))

(* the goal is that of the first match, or empty when nothing matches *)
GoalOfFirstMatch ==
    IF FirstMatch(outline_text, resolution.chapter_num) = 0
    THEN resolution.found.specific_goal = <<>>
    ELSE /\ resolution.found.specific_goal # <<>>
         /\ Head(resolution.found.specific_goal)
               = outline_text[FirstMatch(outline_text, resolution.chapter_num)].text

(* C18: _parse_outline_for_chapter returns at the first chapter item whose *)
(* range contains the target chapter, together with the most recent volume *)
(* and phase headings whose declared ranges contain the chapter (a heading *)
(* without a range contains every chapter); items after the first match    *)
(* never affect the result; if no item matches, the goal is empty and the  *)
(* volume and phase are those accumulated by the end of the scan.          *)
C18_Original ==
    resolution.chapter_num # 0 =>
        /\ GoalOfFirstMatch
        /\ resolution.found.volume
              = TitleAt(outline_text, RecentHeading(outline_text, "vol", 0,
                            ScanEnd(outline_text, resolution.chapter_num), resolution.chapter_num))
        /\ resolution.found.phase
              = TitleAt(outline_text, RecentHeading(outline_text, "phase", 0,
                            ScanEnd(outline_text, resolution.chapter_num), resolution.chapter_num))
        /\ \A k \in 1..Len(outline_text) :
              (/\ FirstMatch(outline_text, resolution.chapter_num) # 0
               /\ k > FirstMatch(outline_text, resolution.chapter_num)
               /\ outline_text[k].kind = "item")
              => \A other \in OutlineLines :
                    (other.kind = "item" /\ other.marked = outline_text[k].marked)
                    => _parse_outline_for_chapter(WithLine(outline_text, k, other),
                                                  resolution.chapter_num) = resolution.found

(* line k comes after the line that ends the detail lines of the first match *)
PastDetails(lines, n, k) ==
    /\ FirstMatch(lines, n) # 0
    /\ \E j \in (FirstMatch(lines, n) + 1)..(k - 1) : EndsDetails(lines[j])

(* C18, amended: the phase is the most recent matching phase heading that  *)
(* follows the returned volume heading (a matching volume heading clears   *)
(* the phase); the goal is the matched item's text plus the non-blank      *)
(* lines after it up to the first line starting with "#" or "- **", and no *)
(* line after that one affects the result.                                 *)
C18_FirstMatchWithHeadings ==
    resolution.chapter_num # 0 =>
        /\ GoalOfFirstMatch
        /\ resolution.found.volume
              = TitleAt(outline_text, RecentHeading(outline_text, "vol", 0,
                            ScanEnd(outline_text, resolution.chapter_num), resolution.chapter_num))
        /\ resolution.found.phase
              = TitleAt(outline_text, RecentHeading(outline_text, "phase",
                            RecentHeading(outline_text, "vol", 0,
                                ScanEnd(outline_text, resolution.chapter_num), resolution.chapter_num),
                            ScanEnd(outline_text, resolution.chapter_num), resolution.chapter_num))
        /\ FirstMatch(outline_text, resolution.chapter_num) # 0 =>
              resolution.found.specific_goal
                 = <<outline_text[FirstMatch(outline_text, resolution.chapter_num)].text>>
                   \o Details(outline_text, FirstMatch(outline_text, resolution.chapter_num) + 1)
        /\ \A k \in 1..Len(outline_text) :
              PastDetails(outline_text, resolution.chapter_num, k)
              => /\ _parse_outline_for_chapter(WithoutLine(outline_text, k), resolution.chapter_num)
                       = resolution.found
                 /\ \A other \in OutlineLines :
                       _parse_outline_for_chapter(WithLine(outline_text, k, other),
                                                  resolution.chapter_num) = resolution.found

(* chapter 2 is resolved to its item under V2, after a phase of the volume *)
(* before it, with a detail line and a later item that also matches        *)
C18_Witness ==
    /\ resolution.chapter_num = 2
    /\ Len(outline_text) = 4
    /\ outline_text[1].kind = "phase"
    /\ outline_text[2].kind = "vol"
    /\ FirstMatch(outline_text, 2) = 3
    /\ outline_text[4].kind = "item"
    /\ ItemInRange(outline_text[4], 2)
    /\ resolution.found.volume = outline_text[2].text
    /\ resolution.found.phase = ""

(***************************************************************************)
(* The streaming operations a caller iterates: prepare_writing,            *)
(* continue_writing, generate_from_plan, update_world_state                *)
(* (generation/services/chapter_workflow.py) and analyze_chapter           *)
(* (generation/thinking.py:58-148).  A stream is the sequence of the items *)
(* yielded, "dict" for a dict and the name of the message for a string,    *)
(* with the way it ended: "returned" or "raised".                          *)
(***************************************************************************)

(* the items that are not dicts: what prepare() passes on to its caller *)
Strings(items) == SelectSeq(items, LAMBDA item : item # "dict")

(* what the planning backend does for analyze_chapter: "cached" is a cache *)
(* hit (no call), the others as in BackendOutcomes                         *)
ThinkingOutcomes == {"cached"} \cup BackendOutcomes

(* the items of analyze_chapter (thinking.py:84-148) *)
AnalyzeStream(out) ==
    IF out = "cached" THEN <<"cache_note", "summary", "newline", "dict">>
    ELSE IF out = "raises" THEN <<"analysing", "api_failed", "dict">>
    ELSE IF out = "plan" THEN <<"analysing", "summary", "newline", "dict">>
    ELSE <<"analysing", "parse_failed", "length", "head", "default_note", "dict">>

(* the plan analyze_chapter yields: parsed, or _get_default_plan *)
AnalyzePlan(out) == IF out \in {"cached", "plan"} THEN "parsed" ELSE "default"

(* _run_thinking (chapter.py:422-449); "no_engine" when gen.thinking_engine is None *)
RunThinking(out) ==
    IF out = "no_engine" THEN <<>> ELSE <<"mode_note">> \o AnalyzeStream(out)

(* what the character-action pass meets: no candidate characters, or the *)
(* backend's answer                                                      *)
ActionOutcomes == {"no_candidates"} \cup BackendOutcomes

(* _run_character_action_graph (chapter.py:815-850): the call of           *)
(* plan_ai.stream_chat is not inside a try, an exception leaves the        *)
(* generator                                                               *)
RunCharacterAction(out) ==
    IF out = "no_candidates" THEN [items |-> <<"dict">>, ended |-> "returned", plan |-> "empty"]
    ELSE IF out = "raises" THEN [items |-> <<"simulating">>, ended |-> "raised", plan |-> "none"]
    ELSE [items |-> <<"simulating", "action_summary", "dict">>, ended |-> "returned",
          plan |-> IF out = "plan" THEN "parsed" ELSE "default"]

(* ChapterPreparationService.prepare (chapter_workflow.py:9-67) *)
prepare(think, act) ==
    IF RunCharacterAction(act).ended = "raised"
    THEN [items |-> Strings(RunThinking(think)) \o Strings(RunCharacterAction(act).items),
          ended |-> "raised",
          bundle |-> [thinking_plan |-> "none", character_action_plan |-> "none"]]
    ELSE [items |-> Strings(RunThinking(think)) \o Strings(RunCharacterAction(act).items)
                    \o <<"dict">>,
          ended |-> "returned",
          bundle |-> [thinking_plan |-> IF think = "no_engine" THEN "none" ELSE AnalyzePlan(think),
                      character_action_plan |-> RunCharacterAction(act).plan]]

(* ChapterWritingService.continue_writing (chapter_workflow.py:74-147): the *)
(* two passes, then the prompt is sent as in generate_from_plan             *)
continue_writing(think, act) ==
    [items |-> Strings(RunThinking(think)) \o Strings(RunCharacterAction(act).items),
     ended |-> "raised",
     bundle |-> [thinking_plan |-> "none", character_action_plan |-> "none"]]

(* what update_world_state meets *)
UpdateOutcomes == {"no_world_data", "raises", "no_json", "merged", "merge_raises"}

(* WorldStateUpdateService.update (chapter_workflow.py:203-579): every dict *)
(* is handed back with return, none is yielded; the backend call at 312-317 *)
(* is outside the try                                                       *)
UpdateStream(out) ==
    IF out = "no_world_data" THEN [items |-> <<>>, ended |-> "returned"]
    ELSE IF out = "raises" THEN [items |-> <<"updating">>, ended |-> "raised"]
    ELSE IF out = "no_json" THEN [items |-> <<"updating">>, ended |-> "returned"]
    ELSE IF out = "merged"
    THEN [items |-> <<"updating", "updated", "chapter_summary">>, ended |-> "returned"]
    ELSE [items |-> <<"updating", "update_failed">>, ended |-> "returned"]

NoBundle == [thinking_plan |-> "none", character_action_plan |-> "none"]

MaxStreams == 2

StreamsInit ==
    /\ streams = <<>>
    /\ GateUnused
    /\ WorkflowUnused
    /\ MergeUnused
    /\ ThinkingUnused
    /\ TargetUnused
    /\ GenerationUnused
    /\ OutlineUnused
    /\ SetupUnused
    /\ UpdateUnused
    /\ PrepareUnused
    /\ AliasUnused
    /\ LimitsUnused
    /\ StoreUnused

PrepareWriting ==
    /\ Len(streams) < MaxStreams
    /\ \E think \in {"no_engine"} \cup ThinkingOutcomes, act \in ActionOutcomes :
          streams' = Append(streams,
              [op |-> "prepare_writing", think |-> think, act |-> act] @@ prepare(think, act))
    /\ UNCHANGED outsideStreams

ContinueWriting ==
    /\ Len(streams) < MaxStreams
    /\ \E think \in {"no_engine"} \cup ThinkingOutcomes, act \in ActionOutcomes :
          streams' = Append(streams,
              [op |-> "continue_writing", think |-> think, act |-> act]
              @@ continue_writing(think, act))
    /\ UNCHANGED outsideStreams

GenerateFromPlanStream ==
    /\ Len(streams) < MaxStreams
    /\ \E p \in PreparationBundles :
          streams' = Append(streams,
              [op |-> "generate_from_plan", think |-> "none", act |-> "none", items |-> <<>>,
               ended |-> IF generate_from_plan(p, TRUE).error = "none" THEN "returned" ELSE "raised",
               bundle |-> NoBundle])
    /\ UNCHANGED outsideStreams

AnalyzeChapterStream ==
    /\ Len(streams) < MaxStreams
    /\ \E think \in ThinkingOutcomes :
          streams' = Append(streams,
              [op |-> "analyze_chapter", think |-> think, act |-> "none",
               items |-> AnalyzeStream(think), ended |-> "returned",
               bundle |-> [NoBundle EXCEPT !.thinking_plan = AnalyzePlan(think)]])
    /\ UNCHANGED outsideStreams

UpdateWorldState ==
    /\ Len(streams) < MaxStreams
    /\ \E out \in UpdateOutcomes :
          streams' = Append(streams,
              [op |-> "update_world_state", think |-> "none", act |-> out, bundle |-> NoBundle]
              @@ UpdateStream(out))
    /\ UNCHANGED outsideStreams

StreamsNext ==
    \/ PrepareWriting
    \/ ContinueWriting
    \/ GenerateFromPlanStream
    \/ AnalyzeChapterStream
    \/ UpdateWorldState

SpecStreams == StreamsInit /\ [][StreamsNext]_vars

(* the stream ends with its only dict *)
EndsWithOneDict(items) ==
    /\ items # <<>>
    /\ items[Len(items)] = "dict"
    /\ \A i \in 1..(Len(items) - 1) : items[i] # "dict"

(* C21: if the backend call raises during the narrative-planning pass or  *)
(* during the character-action pass, prepare() does not raise: the        *)
(* failure is yielded as a diagnostic message, the default plan of that   *)
(* pass is substituted, and prepare() still returns a complete bundle.    *)
C21_Original ==
    \A i \in DOMAIN streams :
        (streams[i].op = "prepare_writing" /\ "raises" \in {streams[i].think, streams[i].act}) =>
            /\ streams[i].ended = "returned"
            /\ EndsWithOneDict(streams[i].items)
            /\ \E j \in DOMAIN streams[i].items : streams[i].items[j] = "api_failed"
            /\ streams[i].think = "raises" => streams[i].bundle.thinking_plan = "default"
            /\ streams[i].act = "raises" => streams[i].bundle.character_action_plan = "default"

(* C23: every streaming operation exposed to callers yields zero or more  *)
(* strings followed by exactly one dict, and that dict is the last item   *)
(* yielded, so a caller that keeps the dict item always obtains the       *)
(* operation's structured result.                                         *)
C23_Original ==
    \A i \in DOMAIN streams :
        /\ streams[i].ended = "returned"
        /\ EndsWithOneDict(streams[i].items)

(***************************************************************************)
(* Operations that need saved data: OutlineGenerator.load_and_expand       *)
(* (generation/outline.py:149-155), initialize_world_from_saved            *)
(* (generation/services/story_pipeline.py:496-511), prepare and update     *)
(* (generation/services/chapter_workflow.py:9-67, 203-206).  An attempt is *)
(* [op, missing, error, calls, writes, outcome]: the data that was missing, *)
(* the exception raised ("none" if none), the number of backend calls made, *)
(* the files written and how the operation ended.                          *)
(***************************************************************************)
NoWrites == {}

(* load_and_expand: the outline text is read; an empty one raises *)
load_and_expand(data) ==
    IF ~data.outline
    THEN [error |-> "FileNotFoundError", calls |-> 0, writes |-> NoWrites, outcome |-> "raised"]
    ELSE [error |-> "none", calls |-> 1, writes |-> {"outline"}, outcome |-> "expanded"]

(* initialize_world_from_saved: blueprint and detailed outline are loaded, *)
(* the first one missing raises                                            *)
initialize_world_from_saved(data) ==
    IF ~data.blueprint \/ ~data.detailed_outline
    THEN [error |-> "FileNotFoundError", calls |-> 0, writes |-> NoWrites, outcome |-> "raised"]
    ELSE [error |-> "none", calls |-> 1, writes |-> {"world_state"}, outcome |-> "initialized"]

(* prepare on the generator of the project: gen.world_data is {} when no   *)
(* world state was saved (chapter.py:56); nothing tests it, the planning   *)
(* pass runs when the engine is set and no character is a candidate        *)
PrepareOnProject(data, engine) ==
    IF ~data.world_state
    THEN [error |-> "none", calls |-> IF engine THEN 1 ELSE 0, writes |-> NoWrites,
          outcome |-> "bundle"]
    ELSE [error |-> "none", calls |-> IF engine THEN 2 ELSE 1, writes |-> NoWrites,
          outcome |-> "bundle"]

(* update: an empty gen.world_data returns {"updated": False, "reason":   *)
(* "no_world_data"} at once                                               *)
UpdateOnProject(data) ==
    IF ~data.world_state
    THEN [error |-> "none", calls |-> 0, writes |-> NoWrites, outcome |-> "no_world_data"]
    ELSE [error |-> "none", calls |-> 1, writes |-> {"world_state"}, outcome |-> "updated"]

(* the saved data an operation needs and does not find *)
Missing(op, data) ==
    IF op = "load_and_expand" THEN {k \in {"outline"} : ~data[k]}
    ELSE IF op = "initialize_world_from_saved"
    THEN {k \in {"blueprint", "detailed_outline"} : ~data[k]}
    ELSE {k \in {"world_state"} : ~data[k]}

MaxAttempts == 3

SetupInit ==
    /\ saved \in [outline : BOOLEAN, blueprint : BOOLEAN, detailed_outline : BOOLEAN,
                  world_state : BOOLEAN]
    /\ saved.world_state => (saved.blueprint /\ saved.detailed_outline)
    /\ attempts = <<>>
    /\ GateUnused
    /\ WorkflowUnused
    /\ MergeUnused
    /\ ThinkingUnused
    /\ TargetUnused
    /\ GenerationUnused
    /\ OutlineUnused
    /\ StreamsUnused
    /\ UpdateUnused
    /\ PrepareUnused
    /\ AliasUnused
    /\ LimitsUnused
    /\ StoreUnused

Attempted(op, done) ==
    /\ Len(attempts) < MaxAttempts
    /\ attempts' = Append(attempts, [op |-> op, missing |-> Missing(op, saved)] @@ done)
    /\ saved' = [k \in DOMAIN saved |-> saved[k] \/ k \in done.writes]
    /\ UNCHANGED outsideSetup

LoadAndExpand == Attempted("load_and_expand", load_and_expand(saved))

InitializeWorldFromSaved ==
    Attempted("initialize_world_from_saved", initialize_world_from_saved(saved))

PrepareChapter == \E engine \in BOOLEAN : Attempted("prepare", PrepareOnProject(saved, engine))

UpdateWorld == Attempted("update", UpdateOnProject(saved))

SetupNext == LoadAndExpand \/ InitializeWorldFromSaved \/ PrepareChapter \/ UpdateWorld

SpecSetup == SetupInit /\ [][SetupNext]_vars

(* C22: an operation that needs a saved outline or an initialized world    *)
(* state fails with an explicit not-found error when that data is missing, *)
(* before any backend call and without writing anything: outline expansion *)
(* with no saved outline, world initialization with no saved blueprint or  *)
(* detailed outline, chapter preparation and world-state update on a       *)
(* project with no world state.                                            *)
C22_Original ==
    \A i \in DOMAIN attempts :
        attempts[i].missing # {} =>
            /\ attempts[i].error = "FileNotFoundError"
            /\ attempts[i].calls = 0
            /\ attempts[i].writes = {}

(***************************************************************************)
(* Further properties of the progression gate (SpecGate).                  *)
(***************************************************************************)

(* the names the merged entry reports in breakthrough_progress *)
ReportedResources ==
    IF last.update.breakthrough_progress = <<>> THEN {}
    ELSE Tokens(last.update.breakthrough_progress[1].resources_acquired)

ReportedConditions ==
    IF last.update.breakthrough_progress = <<>> THEN {}
    ELSE Tokens(last.update.breakthrough_progress[1].conditions_completed)

(* the merged entry is for the gated character, who has an active transition *)
GatedWithActive ==
    /\ Merged
    /\ Gated(Pre, PreChar)
    /\ PreRef.found

(* every requirement of the list whose name is among the names is done *)
NamedDone(requirements, names) ==
    \A i \in 1..Len(requirements) :
        Strip(requirements[i].name) \in names => _is_requirement_done(requirements[i].status)

(* C24: for the gated character with an active transition, progress       *)
(* marking runs on every update that carries progress signals, whether the *)
(* accompanying level_update is accepted, rejected, or ignored as too      *)
(* coarse: after the cycle, each requirement named in resources_acquired / *)
(* conditions_completed is done and each named resource is in              *)
(* resource_inventory.                                                     *)
C24_Original ==
    (GatedWithActive /\ last.update.breakthrough_progress # <<>>) =>
        /\ NamedDone(PostTransition.required_resources, ReportedResources)
        /\ NamedDone(PostTransition.required_conditions, ReportedConditions)
        /\ \A name \in ReportedResources :
              \E i \in 1..Len(InventoryList(progression)) : InventoryList(progression)[i] = name

(***************************************************************************)
(* Plans saved in the older format: the active transition is stored as a   *)
(* dict of its own under "active_transition", which json.load turns into   *)
(* an object distinct from every element of "transitions".                 *)
(***************************************************************************)

(* a document with the single field only, and one that also lists the path *)
LegacyPlans ==
    { [Plan(Hero, <<>>, << <<>> >>, <<"missing">>)
          EXCEPT !.active_transition = <<Transitions(<<"missing">>)[1]>>, !.transitions = <<>>],
      [Plan(Hero, <<>>, << <<>> >>, <<"missing">>)
          EXCEPT !.active_transition = <<Transitions(<<"missing">>)[1]>>] }

GateLegacyInit ==
    /\ characters = InitialCharacters
    /\ progression \in InitialPlans \cup LegacyPlans
    /\ stored = [characters |-> characters, progression |-> progression]
    /\ pc = "idle"
    /\ new_content = <<>>
    /\ applied = 0
    /\ entry = 0
    /\ completions = [i \in 0..1 |-> 0]
    /\ last = NoLast
    /\ WorkflowUnused
    /\ MergeUnused
    /\ ThinkingUnused
    /\ TargetUnused
    /\ GenerationUnused
    /\ OutlineUnused
    /\ StreamsUnused
    /\ SetupUnused
    /\ UpdateUnused
    /\ PrepareUnused
    /\ AliasUnused
    /\ LimitsUnused
    /\ StoreUnused

SpecGateLegacy == GateLegacyInit /\ [][GateNext]_vars

(* the transition the gate treats as active in the current document *)
ActiveNow == _get_active_transition(progression)

(* C25: in every reachable state the transition the gate treats as active  *)
(* has completed = false, also in plans that carry the legacy single       *)
(* active_transition field: a completed transition is never evaluated      *)
(* again.                                                                  *)
C25_Original ==
    ActiveNow.ref.found => ~Deref(ActiveNow.progression, ActiveNow.ref).completed

(* what a cycle may not touch in a requirement list: length, order, names, *)
(* keywords, and the status of a requirement that is done                  *)
SameRequirements(before, after) ==
    /\ Len(after) = Len(before)
    /\ \A i \in 1..Len(before) :
          /\ after[i].name = before[i].name
          /\ after[i].keywords = before[i].keywords
          /\ _is_requirement_done(before[i].status) => _is_requirement_done(after[i].status)

SameTransitionShape(before, after) ==
    /\ after.from_level = before.from_level
    /\ after.to_level = before.to_level
    /\ SameRequirements(before.required_resources, after.required_resources)
    /\ SameRequirements(before.required_conditions, after.required_conditions)
    /\ before.completed => after.completed

(* one step of the program seen from the plan it starts with *)
PlanShapeKept ==
    /\ progression'.present = progression.present
    /\ Len(progression'.transitions) = Len(progression.transitions)
    /\ Len(progression'.active_transition) = Len(progression.active_transition)
    /\ \A i \in 1..Len(progression.transitions) :
          /\ SameTransitionShape(progression.transitions[i], progression'.transitions[i])
          /\ ~(ActiveNow.ref.found /\ ~ActiveNow.ref.direct /\ ActiveNow.ref.idx = i - 1)
                => progression'.transitions[i] = progression.transitions[i]
    /\ \A i \in 1..Len(progression.active_transition) :
          /\ SameTransitionShape(progression.active_transition[i], progression'.active_transition[i])
          /\ ~(ActiveNow.ref.found /\ ActiveNow.ref.direct)
                => progression'.active_transition[i] = progression.active_transition[i]

(* C26: update cycles never change the shape of the progression plan: no   *)
(* transition or requirement is added, removed or reordered; only the      *)
(* status of requirements of the active transition and its completed flag  *)
(* change; requirements of the other transitions keep their status; a      *)
(* requirement that is done never returns to pending.                      *)
C26_PlanShape == [][PlanShapeKept]_vars

(* an entry has marked a requirement of the active transition, and the     *)
(* plan holds a second transition that was not active                      *)
C26_Witness ==
    /\ Merged
    /\ PreRef.found
    /\ Len(Pre.transitions) > 1
    /\ PostTransition.completed
    /\ Requirements(PostTransition) # Requirements(PreTransition)

(* the level the plan tracks for the character, as the gate reads it:      *)
(* progression.get("current_level") or char.get("level", "")               *)
TrackedLevel ==
    Strip(IF Pre.current_level # <<>> THEN Pre.current_level ELSE PreChar.level)

(* the merged entry asks the gated character's plan for the level it has *)
SameKeyRequest ==
    /\ Merged
    /\ Gated(Pre, PreChar)
    /\ _is_granular_level(Requested)
    /\ _normalize_level_key(Requested) = _normalize_level_key(TrackedLevel)

(* C27: a requested level that normalizes to the key of the character's    *)
(* current tracked level is allowed as a no-op confirmation: no transition *)
(* is completed and progression.current_level, active_transition_index,    *)
(* history and the stored value of the character's level are unchanged.    *)
C27_Original ==
    SameKeyRequest =>
        /\ last.gate.consulted /\ last.gate.allowed
        /\ ~last.gate.completed.found
        /\ progression.current_level = Pre.current_level
        /\ progression.active_transition_index = Pre.active_transition_index
        /\ progression.history = Pre.history
        /\ PostChar.level = PreChar.level

(***************************************************************************)
(* Projects picked up after earlier update cycles: the documents the store *)
(* holds once the protagonist has broken through.                          *)
(***************************************************************************)

(* an entry that reports every requirement of the path *)
FullReport(level_update) ==
    Update(Hero, level_update, Progress(<<Shard, Incense, GhostCore>>, <<MirrorHunt, Devour>>))

(* the document a merged breakthrough entry leaves: [characters, progression] *)
AfterBreakthrough(doc, level_update) ==
    LET merged == MergeCharacterUpdate(doc.progression, doc.characters[1],
                                       FullReport(level_update), <<>>,
                                       <<Shard, Incense, GhostCore>>, <<MirrorHunt, Devour>>)
    IN  [characters |-> [doc.characters EXCEPT ![1] = merged.char],
         progression |-> merged.progression]

FreshProject(plan) == [characters |-> InitialCharacters, progression |-> plan]

(* after the first breakthrough, after both, and the two legacy documents  *)
(* after the breakthrough their single transition describes                *)
ResumedProjects ==
    { AfterBreakthrough(FreshProject(Plan(Hero, <<0>>, << <<>> >>, <<"missing">>)), FullQ),
      AfterBreakthrough(
          AfterBreakthrough(FreshProject(Plan(Hero, <<0>>, << <<>> >>, <<"missing">>)), FullQ),
          Fierce) }
    \cup {AfterBreakthrough(FreshProject(plan), FullQ) : plan \in LegacyPlans}

GateResumedInit ==
    /\ \E doc \in ResumedProjects :
          /\ characters = doc.characters
          /\ progression = doc.progression
    /\ stored = [characters |-> characters, progression |-> progression]
    /\ pc = "idle"
    /\ new_content = <<>>
    /\ applied = 0
    /\ entry = 0
    /\ completions = [i \in 0..1 |-> 0]
    /\ last = NoLast
    /\ WorkflowUnused
    /\ MergeUnused
    /\ ThinkingUnused
    /\ TargetUnused
    /\ GenerationUnused
    /\ OutlineUnused
    /\ StreamsUnused
    /\ SetupUnused
    /\ UpdateUnused
    /\ PrepareUnused
    /\ AliasUnused
    /\ LimitsUnused
    /\ StoreUnused

SpecGateResumed == GateResumedInit /\ [][GateNext]_vars

(* no incomplete transition remains in the plan *)
Exhausted(p) ==
    /\ p.present
    /\ Incomplete(p.transitions) = {}
    /\ \A i \in 1..Len(p.active_transition) : p.active_transition[i].completed

(* C28: when the gated character's plan has no incomplete transition left, *)
(* every granular level_update is accepted and progression.current_level   *)
(* is set to it; and when the last transition of a plan completes,         *)
(* active_transition_index becomes null and next_level becomes empty.      *)
C28_Original ==
    /\ (Merged /\ Gated(Pre, PreChar) /\ Exhausted(Pre) /\ _is_granular_level(Requested)) =>
          /\ last.gate.consulted /\ last.gate.allowed
          /\ progression.current_level = Requested
          /\ PostChar.level = Requested
    /\ (Merged /\ last.gate.completed.found /\ Exhausted(progression)) =>
          /\ progression.active_transition_index = <<>>
          /\ progression.next_level = <<>>

(* the structure the granularity check looks for: the separator, or the    *)
(* rank token in a text of at least RankLevelMinLen characters             *)
Structured(level_text) ==
    \/ HasToken(level_text, SEP)
    \/ HasToken(level_text, RANK) /\ Len(level_text) >= RankLevelMinLen

(* C29: a proposed level is granular only if it contains the separator, or *)
(* contains the rank token and is at least 4 characters long; every other  *)
(* value, not only the listed coarse placeholders, is ignored as too       *)
(* coarse and never reaches the gate or the character's level.             *)
C29_Original ==
    (Merged /\ Requested # <<>> /\ ~Structured(Requested)) =>
        /\ ~_is_granular_level(Requested)
        /\ ~last.gate.consulted
        /\ PostChar.level = PreChar.level

(***************************************************************************)
(* WorldStateUpdateService.update as a generator: where it is suspended,   *)
(* what it has received from the backend, and when it writes.              *)
(* A response is a sequence of chunks, one token each: "{" and "}" are the *)
(* braces, "k" a well-formed member of the object, "x" any other text,     *)
(* "FENCE" a code fence and "NL" a line break.                            *)
(***************************************************************************)

(* 0-based str.find / str.rfind, -1 when absent *)
Find(text, token) ==
    IF HasToken(text, token)
    THEN (CHOOSE i \in 1..Len(text) : text[i] = token /\ \A j \in 1..(i - 1) : text[j] # token) - 1
    ELSE -1

RFind(text, token) ==
    IF HasToken(text, token)
    THEN (CHOOSE i \in 1..Len(text) :
              text[i] = token /\ \A j \in (i + 1)..Len(text) : text[j] # token) - 1
    ELSE -1

(* the code-fence handling at the head of _extract_json_dict *)
Unfenced(cleaned) ==
    IF cleaned # <<>> /\ Head(cleaned) = "FENCE"
    THEN LET body == IF Find(cleaned, "NL") > 0
                     THEN SubSeq(cleaned, Find(cleaned, "NL") + 2, Len(cleaned)) ELSE cleaned
         IN  IF body # <<>> /\ body[Len(body)] = "FENCE"
             THEN Strip(SubSeq(body, 1, Len(body) - 1)) ELSE body
    ELSE cleaned

(* json.loads on the cut: an object is "{", members, "}"; <<>> is a        *)
(* JSONDecodeError, else <<members>>                                       *)
JsonLoads(json_str) ==
    IF /\ Len(json_str) >= 2
       /\ json_str[1] = "{"
       /\ json_str[Len(json_str)] = "}"
       /\ \A i \in 2..(Len(json_str) - 1) : json_str[i] = "k"
    THEN <<SubSeq(json_str, 2, Len(json_str) - 1)>>
    ELSE <<>>

(* the dict or None (<<>>): repair is "absent" when json_repair is not     *)
(* installed, else what repair_json makes of the cut: "dict" or "other"    *)
_extract_json_dict(text, repair) ==
    LET cleaned == Unfenced(Strip(text))
        json_start == Find(cleaned, "{")
        json_end == RFind(cleaned, "}") + 1
        json_str == SubSeq(cleaned, json_start + 1, json_end)
    IN  IF json_start < 0 \/ json_end <= json_start THEN <<>>
        ELSE IF JsonLoads(json_str) # <<>> THEN JsonLoads(json_str)
        ELSE IF repair = "dict" THEN <<SelectSeq(json_str, LAMBDA t : t = "k")>>
        ELSE <<>>

(* "if not updates": None and the empty dict *)
Falsy(updates) == updates = <<>> \/ updates[1] = <<>>

(* what the state backend may answer: prose, the "Error: ..." text the     *)
(* repository's backends stream on failure, objects bare, wrapped, fenced, *)
(* empty, cut short and malformed                                          *)
ResponseTexts ==
    { <<"x">>,
      <<"Error">>,
      <<"{", "k", "}">>,
      <<"x", "{", "k", "}", "x">>,
      <<"FENCE", "NL", "{", "k", "}", "FENCE">>,
      <<"{", "}">>,
      <<"{", "k">>,
      <<"}", "{">>,
      <<"{", "x", "k", "}">> }

RepairOutcomes == {"absent", "dict", "other"}

(* bound: calls of update_world_state *)
MaxUpdateCalls == 2

UpdateInit ==
    /\ gen_world = <<>>
    /\ store_world = <<>>
    /\ state_ai = NoBackend
    /\ response_text = <<>>
    /\ update_pos = "idle"
    /\ update_items = <<>>
    /\ update_result = "none"
    /\ update_calls = 0
    /\ at_call = NoCall
    /\ GateUnused
    /\ WorkflowUnused
    /\ MergeUnused
    /\ ThinkingUnused
    /\ TargetUnused
    /\ GenerationUnused
    /\ OutlineUnused
    /\ StreamsUnused
    /\ SetupUnused
    /\ PrepareUnused
    /\ AliasUnused
    /\ LimitsUnused
    /\ StoreUnused

(* the first next(): the prompt is built and the notice is yielded; the    *)
(* backend, an injected client, may raise after any number of chunks       *)
CallUpdate ==
    /\ update_pos \in {"idle", "ended"}
    /\ update_calls < MaxUpdateCalls
    /\ \E text \in ResponseTexts, repair \in RepairOutcomes :
       \E raise_at \in {<<>>} \cup {<<n>> : n \in 0..Len(text)} :
          state_ai' = [text |-> text, raise_at |-> raise_at, repair |-> repair]
    /\ response_text' = <<>>
    /\ update_pos' = "updating"
    /\ update_items' = <<"updating">>
    /\ update_result' = "none"
    /\ update_calls' = update_calls + 1
    /\ at_call' = [gen_world |-> gen_world, store_world |-> store_world]
    /\ UNCHANGED <<gen_world, store_world>>
    /\ UNCHANGED outsideUpdate

(* the caller asks for the next item: stream_chat is entered *)
ResumeUpdate ==
    /\ update_pos = "updating"
    /\ update_pos' = "receiving"
    /\ UNCHANGED <<gen_world, store_world, state_ai, response_text, update_items,
                   update_result, update_calls, at_call>>
    /\ UNCHANGED outsideUpdate

(* response_text += chunk, or the backend raises: the loop is outside the try *)
ReceiveChunk ==
    /\ update_pos = "receiving"
    /\ \/ /\ state_ai.raise_at = <<Len(response_text)>>
          /\ update_pos' = "ended"
          /\ update_result' = "raised"
          /\ UNCHANGED response_text
       \/ /\ state_ai.raise_at # <<Len(response_text)>>
          /\ Len(response_text) < Len(state_ai.text)
          /\ response_text' = Append(response_text, state_ai.text[Len(response_text) + 1])
          /\ UNCHANGED <<update_pos, update_result>>
    /\ UNCHANGED <<gen_world, store_world, state_ai, update_items, update_calls, at_call>>
    /\ UNCHANGED outsideUpdate

(* what a merge that raised partway wrote into gen.world_data *)
PartialMerge == <<"partial">>

(* the merge of a parsed result into gen.world_data *)
MergeUpdates(world, updates) == Append(world, updates[1])

(* the stream is exhausted: parse, and with a result merge, save and       *)
(* yield the confirmation, all before the generator is suspended again; a  *)
(* merge that raises keeps what it wrote and yields the failure notice     *)
ParseAndMerge ==
    /\ update_pos = "receiving"
    /\ state_ai.raise_at # <<Len(response_text)>>
    /\ Len(response_text) = Len(state_ai.text)
    /\ \E updates \in {_extract_json_dict(response_text, state_ai.repair)} :
          IF Falsy(updates)
          THEN /\ update_pos' = "ended"
               /\ update_result' = "returned updated=False no_json"
               /\ UNCHANGED <<gen_world, store_world, update_items>>
          ELSE \/ /\ gen_world' = MergeUpdates(gen_world, updates)
                  /\ store_world' = gen_world'
                  /\ update_items' = Append(update_items, "updated")
                  /\ update_pos' = "updated"
                  /\ UNCHANGED update_result
               \/ /\ gen_world' = Append(gen_world, PartialMerge)
                  /\ update_items' = Append(update_items, "update_failed")
                  /\ update_pos' = "failed"
                  /\ UNCHANGED <<store_world, update_result>>
    /\ UNCHANGED <<state_ai, response_text, update_calls, at_call>>
    /\ UNCHANGED outsideUpdate

(* the caller drains the rest: the summary, then the returned dict *)
FinishUpdateStream ==
    /\ update_pos \in {"updated", "failed"}
    /\ update_items' = IF update_pos = "updated" THEN Append(update_items, "chapter_summary")
                       ELSE update_items
    /\ update_result' = IF update_pos = "updated" THEN "returned updated=True"
                        ELSE "returned updated=False error"
    /\ update_pos' = "ended"
    /\ UNCHANGED <<gen_world, store_world, state_ai, response_text, update_calls, at_call>>
    /\ UNCHANGED outsideUpdate

(* the caller stops iterating: the generator is closed where it is suspended *)
AbandonUpdate ==
    /\ update_pos \in {"updating", "updated", "failed"}
    /\ update_pos' = "ended"
    /\ update_result' = "abandoned"
    /\ UNCHANGED <<gen_world, store_world, state_ai, response_text, update_items,
                   update_calls, at_call>>
    /\ UNCHANGED outsideUpdate

UpdateNext ==
    \/ CallUpdate
    \/ ResumeUpdate
    \/ ReceiveChunk
    \/ ParseAndMerge
    \/ FinishUpdateStream
    \/ AbandonUpdate

SpecUpdate == UpdateInit /\ [][UpdateNext]_vars

(* the backend's response has been received to its end *)
FullyReceived ==
    /\ response_text = state_ai.text
    /\ update_pos \in {"updated", "failed", "ended"}
    /\ update_result # "raised"

WorldUntouched ==
    /\ gen_world = at_call.gen_world
    /\ store_world = at_call.store_world

(* the call is over and its response held no parseable JSON object *)
EndedWithoutJson ==
    /\ update_pos = "ended"
    /\ FullyReceived
    /\ Falsy(_extract_json_dict(response_text, state_ai.repair))

(* C30: update_world_state mutates the in-memory world state only after    *)
(* the backend response has been completely received and parsed into a     *)
(* structured result: a stream abandoned before it ends leaves the world   *)
(* state unchanged, and a response with no parseable JSON object leaves    *)
(* the world state unchanged, saves nothing and yields updated=false.      *)
C30_Original ==
    /\ ~WorldUntouched =>
          FullyReceived /\ ~Falsy(_extract_json_dict(response_text, state_ai.repair))
    /\ (update_pos = "ended" /\ ~FullyReceived) => WorldUntouched
    /\ EndedWithoutJson =>
          /\ WorldUntouched
          /\ \E i \in 1..Len(update_items) : update_items[i] = "dict updated=False"

(* the running call failed after merging had started *)
FailedInMerge ==
    \/ update_pos = "failed"
    \/ update_pos = "ended" /\ update_result = "returned updated=False error"
    \/ update_pos = "ended" /\ update_result = "abandoned"
          /\ update_items[Len(update_items)] = "update_failed"

ProjectPlans ==
    InitialPlans \cup LegacyPlans \cup {d.progression : d \in ResumedProjects}

(* bound: prepare() calls on one generator *)
MaxPrepares == 2

PrepareInit ==
    /\ \E plan \in ProjectPlans :
          /\ plan_in_memory = <<plan>>
          /\ plan_on_disk = <<plan>>
    /\ cached_keys = {}
    /\ prepare_log = <<>>
    /\ GateUnused
    /\ WorkflowUnused
    /\ MergeUnused
    /\ ThinkingUnused
    /\ TargetUnused
    /\ GenerationUnused
    /\ OutlineUnused
    /\ StreamsUnused
    /\ SetupUnused
    /\ UpdateUnused
    /\ AliasUnused
    /\ LimitsUnused
    /\ StoreUnused

(* _get_world_breakthrough_rules_str: the text is built from what          *)
(* _get_active_transition returns, which stores the index it scans for     *)
_get_world_breakthrough_rules_str(p) == _get_active_transition(p).progression

(* one prepare() call: the context is built (twice through the rules), the *)
(* planning pass may add its plan to the cache, the character-action pass  *)
(* may raise; nothing is saved                                             *)
PrepareBundle ==
    /\ Len(prepare_log) < MaxPrepares
    /\ \E think \in {"no_engine"} \cup ThinkingOutcomes, act \in ActionOutcomes :
          /\ think = "cached" => cached_keys # {}
          /\ plan_in_memory' =
                 <<_get_world_breakthrough_rules_str(
                       _get_world_breakthrough_rules_str(plan_in_memory[1]))>>
          /\ cached_keys' = IF think = "plan" THEN cached_keys \cup {"chapter"} ELSE cached_keys
          /\ prepare_log' = Append(prepare_log,
                 [think |-> think, act |-> act,
                  before |-> plan_in_memory[1], after |-> plan_in_memory'[1],
                  ended |-> prepare(think, act).ended])
    /\ UNCHANGED plan_on_disk
    /\ UNCHANGED outsidePrepare

(* a new generator is constructed: world_data is loaded from the store *)
NewGenerator ==
    /\ prepare_log # <<>>
    /\ plan_in_memory' = plan_on_disk
    /\ UNCHANGED <<plan_on_disk, cached_keys, prepare_log>>
    /\ UNCHANGED outsidePrepare

PrepareNext == PrepareBundle \/ NewGenerator

SpecPrepare == PrepareInit /\ [][PrepareNext]_vars

(* C32: prepare() has no side effects on project state: it does not modify *)
(* the in-memory world state (protagonist_progression and its              *)
(* active_transition_index included) and writes neither world state nor    *)
(* chapters to the store; the planning cache is the only state it may      *)
(* change.                                                                 *)
C32_Original ==
    \A i \in 1..Len(prepare_log) : prepare_log[i].after = prepare_log[i].before

(***************************************************************************)
(* The planning cache under longer runs on few keys: the same engine and   *)
(* analyze_chapter as SpecThinking, with requests for three chapters.      *)
(***************************************************************************)

CacheRequests == {[Request EXCEPT !.chapter_num = n] : n \in {5, 6, 7}}

(* bound: analyze_chapter calls on one engine *)
MaxCacheCalls == 5

CacheInit ==
    /\ plan_cache = <<>>
    /\ cache_size \in CacheSizes
    /\ ai_calls = 0
    /\ analyses = <<>>
    /\ GateUnused
    /\ WorkflowUnused
    /\ MergeUnused
    /\ TargetUnused
    /\ GenerationUnused
    /\ OutlineUnused
    /\ StreamsUnused
    /\ SetupUnused
    /\ UpdateUnused
    /\ PrepareUnused
    /\ AliasUnused
    /\ LimitsUnused
    /\ StoreUnused

(* one analyze_chapter call, its generator consumed to the end *)
AnalyzeCachedChapter ==
    /\ Len(analyses) < MaxCacheCalls
    /\ \E req \in CacheRequests : \E out \in {"plan", "garbage"} :
       \E done \in {analyze_chapter(plan_cache, cache_size, req, out, ai_calls + 1)} :
          /\ done.hit => out = "plan"
          /\ plan_cache' = done.cache
          /\ ai_calls' = IF done.called THEN ai_calls + 1 ELSE ai_calls
          /\ analyses' = Append(analyses,
                 [chapter_num |-> req.chapter_num,
                  mode |-> ResolvedMode(req.thinking_mode, req.is_append),
                  outline_info |-> req.outline_info,
                  world_context |-> clip_tail(req.world_context, world_context_chars),
                  previous_content |-> clip_tail(req.previous_content, previous_context_chars),
                  key |-> KeyOf(req),
                  hit |-> done.hit, called |-> done.called,
                  parsed |-> done.hit \/ out = "plan", plan |-> done.plan])
    /\ UNCHANGED cache_size
    /\ UNCHANGED outsideThinking

CacheNext == AnalyzeCachedChapter

SpecCache == CacheInit /\ [][CacheNext]_vars

(* the calls that used a key: an insert or a hit *)
Uses(key) == {j \in 1..Len(analyses) : analyses[j].key = key /\ analyses[j].parsed}

UsedKeys == {analyses[j].key : j \in {m \in 1..Len(analyses) : analyses[m].parsed}}

LastUse(key) == CHOOSE j \in Uses(key) : \A m \in Uses(key) : m <= j

CachedKeys == {plan_cache[p].key : p \in 1..Len(plan_cache)}

(* C33: the planning cache never holds more than cache_size entries        *)
(* (cache_size at least 1); the entry an insert evicts is the least        *)
(* recently used one, an insert and a hit both counting as a use: the      *)
(* cache holds the cache_size most recently used keys, so an entry just    *)
(* hit is not evicted while an older unused entry remains.                 *)
C33_BoundedLru ==
    /\ cache_size >= 1
    /\ Len(plan_cache) <= cache_size
    /\ Cardinality(CachedKeys) = Len(plan_cache)
    /\ Len(plan_cache) = Min(cache_size, Cardinality(UsedKeys))
    /\ CachedKeys \subseteq UsedKeys
    /\ \A kept \in CachedKeys : \A gone \in UsedKeys \ CachedKeys :
          LastUse(kept) > LastUse(gone)

(* a full cache of two: the older entry is hit, a third key is inserted,   *)
(* and the entry evicted is the one not hit                                *)
C33_Witness ==
    /\ cache_size = 2
    /\ Len(analyses) = 4
    /\ analyses[1].called /\ analyses[1].parsed
    /\ analyses[2].called /\ analyses[2].parsed /\ analyses[2].key # analyses[1].key
    /\ analyses[3].hit /\ analyses[3].key = analyses[1].key
    /\ analyses[4].called /\ analyses[4].parsed
    /\ analyses[4].key \notin {analyses[1].key, analyses[2].key}
    /\ CachedKeys = {analyses[1].key, analyses[4].key}

(***************************************************************************)
(* Plans as objects. A plan is the dict itself and the nested "_meta"      *)
(* dict: [top, meta], two identities into the heap. The content of an      *)
(* object is <<"plan", key>> or <<"meta", key>> as the backend's response  *)
(* for the key gave it, <<"default">> for the fallback plan, or            *)
(* <<"tampered">> once a caller has written to it.                         *)
(***************************************************************************)

(* mutant: copy.copy, a new dict whose nested dict is the same object *)
ShallowCopy(h, ref) ==
    [heap |-> Append(h, h[ref.top]), plan |-> [top |-> Len(h) + 1, meta |-> ref.meta]]

(* copy.deepcopy: new objects with equal content *)
DeepCopy(h, ref) ==
    [heap |-> h \o <<h[ref.top], h[ref.meta]>>,
     plan |-> [top |-> Len(h) + 1, meta |-> Len(h) + 2]]

(* a dict built from a response, or the default plan, with its _meta *)
NewPlan(h, top_content, meta_content) ==
    [heap |-> h \o <<top_content, meta_content>>,
     plan |-> [top |-> Len(h) + 1, meta |-> Len(h) + 2]]

EntriesFor(entries, cache_key) == {p \in 1..Len(entries) : entries[p].key = cache_key}

(* _get_cached_plan on a cached key: move_to_end, return copy.deepcopy(cached) *)
GetCachedCopy(h, entries, cache_key) ==
    LET at == First(EntriesFor(entries, cache_key))
        copied == DeepCopy(h, entries[at].plan)
    IN  [heap |-> copied.heap, plan |-> copied.plan,
         entries |-> Append(SelectSeq(entries, LAMBDA e : e.key # cache_key), entries[at])]

(* _save_cached_plan: the cache stores copy.deepcopy(plan), evicts from the front *)
SaveCachedCopy(h, entries, cache_key, ref, size) ==
    LET copied == DeepCopy(h, ref)
    IN  [heap |-> copied.heap,
         entries |-> Tail_n(Append(SelectSeq(entries, LAMBDA e : e.key # cache_key),
                                   [key |-> cache_key, plan |-> copied.plan]), size)]

AliasKeys == {"ch5", "ch6"}

(* the cache_size of the engine in these runs *)
AliasCacheSize == 1

(* bound: analyze_chapter calls *)
MaxAliasCalls == 3

Seen(h, ref) == [top |-> h[ref.top], meta |-> h[ref.meta]]

AliasInit ==
    /\ heap = <<>>
    /\ cache_entries = <<>>
    /\ handed_plans = <<>>
    /\ GateUnused
    /\ WorkflowUnused
    /\ MergeUnused
    /\ ThinkingUnused
    /\ TargetUnused
    /\ GenerationUnused
    /\ OutlineUnused
    /\ StreamsUnused
    /\ SetupUnused
    /\ UpdateUnused
    /\ PrepareUnused
    /\ LimitsUnused
    /\ StoreUnused

(* analyze_chapter on a cached key: the copy is yielded *)
AnalyzeHit ==
    /\ Len(handed_plans) < MaxAliasCalls
    /\ \E cache_key \in AliasKeys :
          /\ EntriesFor(cache_entries, cache_key) # {}
          /\ \E got \in {GetCachedCopy(heap, cache_entries, cache_key)} :
                /\ heap' = got.heap
                /\ cache_entries' = got.entries
                /\ handed_plans' = Append(handed_plans,
                       [key |-> cache_key, plan |-> got.plan, hit |-> TRUE,
                        seen |-> Seen(got.heap, got.plan)])
    /\ UNCHANGED outsideAlias

(* analyze_chapter on a key not cached, the response parsed: result is     *)
(* saved through _save_cached_plan and then yielded itself                 *)
AnalyzeMiss ==
    /\ Len(handed_plans) < MaxAliasCalls
    /\ \E cache_key \in AliasKeys :
          /\ EntriesFor(cache_entries, cache_key) = {}
          /\ \E parsed \in {NewPlan(heap, <<"plan", cache_key>>, <<"meta", cache_key>>)} :
             \E saved_copy \in {SaveCachedCopy(parsed.heap, cache_entries, cache_key,
                                               parsed.plan, AliasCacheSize)} :
                /\ heap' = saved_copy.heap
                /\ cache_entries' = saved_copy.entries
                /\ handed_plans' = Append(handed_plans,
                       [key |-> cache_key, plan |-> parsed.plan, hit |-> FALSE,
                        seen |-> Seen(saved_copy.heap, parsed.plan)])
    /\ UNCHANGED outsideAlias

(* analyze_chapter on a key not cached, the backend raising or its         *)
(* response not parsed: the default plan is yielded, nothing is cached     *)
AnalyzeFallback ==
    /\ Len(handed_plans) < MaxAliasCalls
    /\ \E cache_key \in AliasKeys :
          /\ EntriesFor(cache_entries, cache_key) = {}
          /\ \E fallback \in {NewPlan(heap, <<"default">>, <<"meta", cache_key>>)} :
                /\ heap' = fallback.heap
                /\ handed_plans' = Append(handed_plans,
                       [key |-> cache_key, plan |-> fallback.plan, hit |-> FALSE,
                        seen |-> Seen(fallback.heap, fallback.plan)])
    /\ UNCHANGED cache_entries
    /\ UNCHANGED outsideAlias

(* a caller writes to a plan it was given: to the dict or to its nested dict *)
MutateReturnedPlan ==
    /\ \E j \in 1..Len(handed_plans) :
       \E id \in {handed_plans[j].plan.top, handed_plans[j].plan.meta} :
          /\ heap[id] # <<"tampered">>
          /\ heap' = [heap EXCEPT ![id] = <<"tampered">>]
    /\ UNCHANGED <<cache_entries, handed_plans>>
    /\ UNCHANGED outsideAlias

AliasNext == AnalyzeHit \/ AnalyzeMiss \/ AnalyzeFallback \/ MutateReturnedPlan

SpecAlias == AliasInit /\ [][AliasNext]_vars

(* C34: a plan returned by analyze_chapter, on a miss or on a hit, shares  *)
(* no mutable state with the cache: whatever callers do to the plans they  *)
(* were given, a later cache hit for the key returns the plan as it was    *)
(* cached.                                                                 *)
C34_NoSharedState ==
    /\ \A j \in 1..Len(handed_plans) :
          handed_plans[j].hit =>
              handed_plans[j].seen = [top |-> <<"plan", handed_plans[j].key>>,
                                      meta |-> <<"meta", handed_plans[j].key>>]
    /\ \A p \in 1..Len(cache_entries) :
          \A j \in 1..Len(handed_plans) :
              {cache_entries[p].plan.top, cache_entries[p].plan.meta}
                  \cap {handed_plans[j].plan.top, handed_plans[j].plan.meta} = {}

(* the plan of a miss and the plan of a hit were both written to, dict and *)
(* nested dict, and a later hit for the key followed                       *)
C34_Witness ==
    /\ Len(handed_plans) = 3
    /\ ~handed_plans[1].hit /\ handed_plans[2].hit /\ handed_plans[3].hit
    /\ handed_plans[1].key = handed_plans[3].key
    /\ handed_plans[2].key = handed_plans[3].key
    /\ \A j \in 1..2 : /\ heap[handed_plans[j].plan.top] = <<"tampered">>
                       /\ heap[handed_plans[j].plan.meta] = <<"tampered">>
    /\ handed_plans[3].seen.top # <<"tampered">>

(* ------------------------------------------------------------------ *)
(* The limits of one merged update: chapter_workflow.py 410, 428-467.  *)
(* The update carries memory_updates and one action entry's tags; it   *)
(* has no status entries and no formatted action line, so that what    *)
(* is appended to a stored list is what _to_text_list kept.            *)
(* ------------------------------------------------------------------ *)

LongTermTake == 6

BeliefsTake == 4

TagsTake == 3

LongTermCap == 40

BeliefsCap == 20

(* the incoming texts numbered from 2001, n of them *)
Incoming(n) == List(Texts(2001, 2000 + n))

(* the stored texts numbered from 1, n of them *)
StoredTexts(n) == IF n = 0 THEN <<>> ELSE Texts(1, n)

MemoryUpdates ==
    { [short_term |-> Incoming(a), long_term |-> Incoming(b), beliefs |-> Incoming(c), tags |-> Incoming(d)] :
        a \in {0, ShortTermTake - 1, ShortTermTake, ShortTermTake + 1, ShortTermTake + 2},
        b \in {0, LongTermTake, LongTermTake + 1},
        c \in {0, BeliefsTake, BeliefsTake + 1},
        d \in {0, TagsTake, TagsTake + 1} }

CharMemories ==
    { [memory_short_term |-> StoredTexts(a), memory_long_term |-> StoredTexts(b), memory_beliefs |-> StoredTexts(c)] :
        a \in {0, ShortTermCap}, b \in {0, LongTermCap}, c \in {0, BeliefsCap} }

LimitsInit ==
    /\ memory_updates \in MemoryUpdates
    /\ char_memory \in CharMemories
    /\ limit_log = <<>>
    /\ GateUnused
    /\ WorkflowUnused
    /\ MergeUnused
    /\ ThinkingUnused
    /\ TargetUnused
    /\ GenerationUnused
    /\ OutlineUnused
    /\ StreamsUnused
    /\ SetupUnused
    /\ UpdateUnused
    /\ PrepareUnused
    /\ AliasUnused
    /\ StoreUnused

(* one truncation: the list it was given, what it kept, its limit *)
Truncation(where, full, kept, limit) == [where |-> where, full |-> full, kept |-> kept, limit |-> limit]

(* char[key].extend(memories); char[key] = _dedupe_keep_order(char[key])[-cap:] when memories is not empty *)
ExtendCapped(stored_list, memories, cap) ==
    IF memories = <<>> THEN stored_list
    ELSE Tail_n(_dedupe_keep_order(stored_list \o memories), cap)

(* the memory part of the merge of one update into one character *)
MergeMemories ==
    /\ limit_log = <<>>
    /\ \E tags \in {_to_text_list(memory_updates.tags, TagsTake)} :
       \E short_memories \in {_to_text_list(memory_updates.short_term, ShortTermTake)} :
       \E long_memories \in {_to_text_list(memory_updates.long_term, LongTermTake)} :
       \E belief_memories \in {_to_text_list(memory_updates.beliefs, BeliefsTake)} :
          /\ char_memory' =
                [memory_short_term |-> ExtendCapped(char_memory.memory_short_term, short_memories, ShortTermCap),
                 memory_long_term |-> ExtendCapped(char_memory.memory_long_term, long_memories, LongTermCap),
                 memory_beliefs |-> ExtendCapped(char_memory.memory_beliefs, belief_memories, BeliefsCap)]
          /\ limit_log' =
                << Truncation("tags", _to_text_list(memory_updates.tags, 0), tags, TagsTake),
                   Truncation("short_term", _to_text_list(memory_updates.short_term, 0), short_memories, ShortTermTake),
                   Truncation("long_term", _to_text_list(memory_updates.long_term, 0), long_memories, LongTermTake),
                   Truncation("beliefs", _to_text_list(memory_updates.beliefs, 0), belief_memories, BeliefsTake),
                   Truncation("memory_short_term",
                              _dedupe_keep_order(char_memory.memory_short_term \o short_memories),
                              char_memory'.memory_short_term, ShortTermCap),
                   Truncation("memory_long_term",
                              _dedupe_keep_order(char_memory.memory_long_term \o long_memories),
                              char_memory'.memory_long_term, LongTermCap),
                   Truncation("memory_beliefs",
                              _dedupe_keep_order(char_memory.memory_beliefs \o belief_memories),
                              char_memory'.memory_beliefs, BeliefsCap) >>
    /\ UNCHANGED memory_updates
    /\ UNCHANGED outsideLimits

LimitsNext == MergeMemories

SpecLimits == LimitsInit /\ [][LimitsNext]_vars

PerUpdateLimits == {"tags", "short_term", "long_term", "beliefs"}

(* C35: every truncation applied while merging an update keeps the tail,   *)
(* the most recent entries, and drops from the head: the per-update limits *)
(* on the incoming short_term, long_term and beliefs lists and on action   *)
(* tags as well as the caps on the stored collections.                     *)
C35_Original ==
    \A i \in 1..Len(limit_log) :
        limit_log[i].kept = Tail_n(limit_log[i].full, limit_log[i].limit)

(* the caps on the stored collections do keep the tail *)
StoredCapsKeepTail ==
    \A i \in 1..Len(limit_log) :
        limit_log[i].where \notin PerUpdateLimits =>
            limit_log[i].kept = Tail_n(limit_log[i].full, limit_log[i].limit)

(* the per-update limits keep the head *)
PerUpdateKeepHead ==
    \A i \in 1..Len(limit_log) :
        limit_log[i].where \in PerUpdateLimits =>
            limit_log[i].kept = Head_n(limit_log[i].full, limit_log[i].limit)

(* a stored collection was cut by its cap *)
StoredCapCut ==
    \E i \in 1..Len(limit_log) :
        /\ limit_log[i].where \notin PerUpdateLimits
        /\ Len(limit_log[i].full) > limit_log[i].limit

(* ------------------------------------------------------------------ *)
(* The chapter files of a project: StorageManager.save_chapter and     *)
(* list_chapters (storage/manager.py:41-66, 172-184), the latest       *)
(* chapter and the target (chapter.py:61-81, 391-411), the generation  *)
(* result (chapter.py:949-968) and the persist step of the workflow    *)
(* (interactive/workflow.py:180-209).                                  *)
(* A file is [num, title, text, words]: its name is "%03d_title.txt",  *)
(* its text the header line followed by the content, a list of the     *)
(* texts generated (each generation's text is named by its number),    *)
(* words the                                                           *)
(* word count of the content.                                          *)
(* ------------------------------------------------------------------ *)

(* the titles a generation can put in its heading line; "!" stands for a *)
(* character that save_chapter removes from a file name                  *)
ChapterTitles == {<<"a">>, <<"b">>, <<"a", "!">>}

SafeTitleChars == {"a", "b", " ", "_", "-"}

(* "".join(c for c in title if c.isalnum() or c in (...)).strip(), or the default name *)
SafeTitle(title) ==
    IF Strip(SelectSeq(title, LAMBDA c : c \in SafeTitleChars)) = <<>> THEN <<"unnamed">>
    ELSE Strip(SelectSeq(title, LAMBDA c : c \in SafeTitleChars))

(* the file of that name is created or overwritten *)
save_chapter(files, chapter_index, title, content, words) ==
    {f \in files : ~(f.num = chapter_index /\ f.title = SafeTitle(title))}
        \cup {[num |-> chapter_index, title |-> SafeTitle(title),
               text |-> <<"header">> \o content, words |-> words]}

(* the order of the file names under sorted() *)
TitleRank(title) == IF title = <<"a">> THEN 1 ELSE 2

NameBefore(f, g) == f.num < g.num \/ (f.num = g.num /\ TitleRank(f.title) <= TitleRank(g.title))

(* (ch_num, title, content, ch_len) of _get_latest_chapter: chapters[-1] *)
LatestChapter(files) ==
    IF files = {} THEN [ch_num |-> 0, title |-> <<>>, content |-> <<>>, ch_len |-> 0]
    ELSE [ch_num |-> (CHOOSE f \in files : \A g \in files : NameBefore(g, f)).num,
          title |-> (CHOOSE f \in files : \A g \in files : NameBefore(g, f)).title,
          content |-> (CHOOSE f \in files : \A g \in files : NameBefore(g, f)).text,
          ch_len |-> (CHOOSE f \in files : \A g \in files : NameBefore(g, f)).words]

StoreDefaultWords == 3000

(* the keys of the bundle prepare() yields that generation and persist read *)
StoreBundle(files) ==
    [mode |-> _resolve_generation_target(LatestChapter(files).ch_num, LatestChapter(files).ch_len,
                                         StoreDefaultWords).mode,
     chapter_num |-> _resolve_generation_target(LatestChapter(files).ch_num,
                                                LatestChapter(files).ch_len,
                                                StoreDefaultWords).chapter_num,
     chapter_title |-> LatestChapter(files).title,
     chapter_content |-> LatestChapter(files).content,
     chapter_len |-> LatestChapter(files).ch_len]

(* what the backend streams: a heading with a title and a text of some length *)
Generated == [title : ChapterTitles, words : {1200, 3000}]

_build_generation_result(mode, chapter_num, chapter_title, previous_content, previous_len, text, got) ==
    [mode |-> mode,
     chapter |-> chapter_num,
     title |-> IF mode = "append" THEN chapter_title ELSE got.title,
     new_content |-> <<text>>,
     full_text |-> IF mode = "append" THEN previous_content \o <<"NLNL">> \o <<text>> ELSE <<text>>,
     total_words |-> IF mode = "append" THEN previous_len + got.words ELSE got.words]

MaxStoreInvocations == 3

StoreInit ==
    /\ chapters_dir = {}
    /\ returned_bundles = {}
    /\ persist_log = <<>>
    /\ store_invocations = 0
    /\ GateUnused
    /\ WorkflowUnused
    /\ MergeUnused
    /\ ThinkingUnused
    /\ TargetUnused
    /\ GenerationUnused
    /\ OutlineUnused
    /\ StreamsUnused
    /\ SetupUnused
    /\ UpdateUnused
    /\ PrepareUnused
    /\ AliasUnused
    /\ LimitsUnused

(* generate and persist of one invocation that holds the bundle b *)
GenerateAndPersist(b) ==
    \E got \in Generated :
    \E res \in {_build_generation_result(b.mode, b.chapter_num, b.chapter_title, b.chapter_content,
                                         b.chapter_len, ToString(store_invocations + 1), got)} :
        /\ chapters_dir' = save_chapter(chapters_dir, res.chapter, res.title, res.full_text,
                                        res.total_words)
        /\ persist_log' = Append(persist_log,
                                 [chapter |-> res.chapter, text |-> ToString(store_invocations + 1),
                                  current |-> b = StoreBundle(chapters_dir),
                                  again |-> \E i \in 1..Len(persist_log) : persist_log[i].bundle = b,
                                  bundle |-> b])

(* invoke(): prepare, review without a wait, generate, persist *)
InvokeThrough ==
    /\ store_invocations < MaxStoreInvocations
    /\ GenerateAndPersist(StoreBundle(chapters_dir))
    /\ returned_bundles' = returned_bundles \cup {StoreBundle(chapters_dir)}
    /\ store_invocations' = store_invocations + 1
    /\ UNCHANGED outsideStore

(* invoke(): prepare, review; the invocation ends awaiting approval *)
InvokeAwaiting ==
    /\ store_invocations < MaxStoreInvocations
    /\ returned_bundles' = returned_bundles \cup {StoreBundle(chapters_dir)}
    /\ store_invocations' = store_invocations + 1
    /\ UNCHANGED <<chapters_dir, persist_log>>
    /\ UNCHANGED outsideStore

(* invoke(approved=True, preparation=b) with a bundle an invocation returned *)
InvokeWithBundle ==
    /\ store_invocations < MaxStoreInvocations
    /\ \E b \in returned_bundles : GenerateAndPersist(b)
    /\ store_invocations' = store_invocations + 1
    /\ UNCHANGED returned_bundles
    /\ UNCHANGED outsideStore

StoreNext == InvokeThrough \/ InvokeAwaiting \/ InvokeWithBundle

SpecStore == StoreInit /\ [][StoreNext]_vars

OneFilePerNumber == \A f, g \in chapters_dir : f.num = g.num => f = g

KeepsPersistedText ==
    \A i \in 1..Len(persist_log) :
        \E f \in chapters_dir :
            /\ f.num = persist_log[i].chapter
            /\ \E k \in 1..Len(f.text) : f.text[k] = persist_log[i].text

(* C36: after any sequence of workflow invocations, an invocation with a   *)
(* bundle that was already generated and persisted included, the store     *)
(* holds at most one chapter file per chapter number and the file of       *)
(* chapter N holds all the text persisted for chapter N before.            *)
C36_Original == OneFilePerNumber /\ KeepsPersistedText

(* every persisted bundle was the one prepare() would make of the store *)
AlwaysCurrent == \A i \in 1..Len(persist_log) : persist_log[i].current

(* with current bundles only, the store is keyed by number and loses nothing *)
CurrentBundlesKeepStore == AlwaysCurrent => C36_Original

(* a second file of a number, written by a bundle persisted before *)
TwoFilesAfterReuse ==
    /\ ~OneFilePerNumber
    /\ persist_log # <<>>
    /\ persist_log[Len(persist_log)].again

(* persisted text lost although the store has one file per number *)
TextLostInOneFile == OneFilePerNumber /\ ~KeepsPersistedText

(* a chapter was appended to with a current bundle *)
AppendedCurrent ==
    \E i \in 1..Len(persist_log) : persist_log[i].current /\ persist_log[i].bundle.mode = "append"

(* ------------------------------------------------------------------ *)
(* Progress marking and level changes: the two branches of the merge   *)
(* of one character update (chapter_workflow.py:359-393) and what      *)
(* they call (chapter.py:1244-1328).                                   *)
(* ------------------------------------------------------------------ *)

(* the completed flags of a plan, the direct transition's first *)
CompletedFlags(p) ==
    [i \in 1..Len(p.active_transition) |-> p.active_transition[i].completed]
        \o [i \in 1..Len(p.transitions) |-> p.transitions[i].completed]

(* the merged entry carries no level_update *)
WithoutLevelUpdate == Merged /\ last.update.level_update = <<>>

(* the entry merged last advanced nothing *)
LevelKept ==
    /\ progression.current_level = Pre.current_level
    /\ CompletedFlags(progression) = CompletedFlags(Pre)
    /\ PostChar.level = PreChar.level

(* C37: progress marking alone never advances a level: current_level, the  *)
(* completed flags, active_transition_index and the gated character's      *)
(* level change only when the merged update carries a level_update; an     *)
(* update that carries only breakthrough_progress can make every           *)
(* requirement of the active transition done and leaves it incomplete.     *)
C37_Original ==
    WithoutLevelUpdate =>
        /\ LevelKept
        /\ progression.active_transition_index = Pre.active_transition_index

(* what holds of the code: the level, the flags and the character are kept *)
ProgressKeepsLevel == WithoutLevelUpdate => LevelKept

(* progress marking moves the index only from unset to the first incomplete transition *)
IndexOnlyInitialised ==
    (WithoutLevelUpdate /\ progression.active_transition_index # Pre.active_transition_index) =>
        /\ Pre.active_transition_index = <<>>
        /\ progression.active_transition_index = <<FirstIncomplete(Pre.transitions)>>
        /\ last.update.breakthrough_progress # <<>>

(* a progress-only entry has made every requirement done; the transition stays open *)
AllDoneStillOpen ==
    /\ WithoutLevelUpdate
    /\ last.update.breakthrough_progress # <<>>
    /\ Gated(Pre, PreChar)
    /\ PreRef.found
    /\ Pending(PreTransition)
    /\ ~Pending(PostTransition)
    /\ ~PostTransition.completed

(* ------------------------------------------------------------------ *)
(* The persist step within an invocation (interactive/workflow.py      *)
(* 180-209, 104-114).                                                  *)
(* ------------------------------------------------------------------ *)

(* every call of update_world_state comes after a call of save_chapter *)
SavedBeforeWorldUpdate ==
    \A i \in 1..Len(calls) :
        calls[i] = "update_world_state" => \E j \in 1..(i - 1) : calls[j] = "save_chapter"

(* the world-state update of the returned invocation raised or reported failure *)
WorldUpdateFailed ==
    /\ Returned
    /\ Called("update_world_state")
    /\ \/ state.world_update_logs = <<"world update failed">>
       \/ state.world_update = [updated |-> FALSE]

(* C38: in the persist step the chapter is saved before the world-state    *)
(* update starts; when the update raises or reports failure the saved      *)
(* chapter remains, the error field stays empty and the returned state     *)
(* carries saved_path; the chapter is saved at most once per invocation    *)
(* and only when a generation result exists.                               *)
C38_PersistOrder ==
    /\ SavedBeforeWorldUpdate
    /\ WorldUpdateFailed =>
        /\ Called("save_chapter")
        /\ ~HasError(state)
        /\ "saved_path" \in DOMAIN state
    /\ TimesCalled("save_chapter") <= 1
    /\ Called("save_chapter") => HasResult(state) /\ Ran("persist")

(* the update raised after the chapter was saved; the state has the path and no error *)
C38_Witness ==
    /\ WorldUpdateFailed
    /\ state.world_update_logs = <<"world update failed">>
    /\ calls[Len(calls)] = "update_world_state"
    /\ calls[Len(calls) - 1] = "save_chapter"
    /\ state.saved_path = "path"
    /\ ~HasError(state)

(* the update reported failure; the state has the path and no error *)
ReportedFailureReturned ==
    /\ WorldUpdateFailed
    /\ state.world_update = [updated |-> FALSE]
    /\ state.saved_path = "path"

(* ------------------------------------------------------------------ *)
(* The phase and the volume the outline resolver returns together      *)
(* (generation/chapter.py:970-1040).                                   *)
(* ------------------------------------------------------------------ *)

(* the title of the volume heading a line stands under: the nearest volume *)
(* heading above line k, "" when there is none                             *)
VolumeOver(lines, k) ==
    IF \E i \in 1..(k - 1) : lines[i].kind = "vol"
    THEN lines[CHOOSE i \in 1..(k - 1) :
                  /\ lines[i].kind = "vol"
                  /\ \A j \in (i + 1)..(k - 1) : lines[j].kind # "vol"].text
    ELSE ""

(* a phase heading with this title stands under a volume heading with that title *)
PhaseUnder(lines, phase, volume) ==
    \E k \in 1..Len(lines) :
        /\ lines[k].kind = "phase"
        /\ lines[k].text = phase
        /\ VolumeOver(lines, k) = volume

(* C39: the phase _parse_outline_for_chapter returns is empty or a phase   *)
(* heading that appears under the returned volume heading in the outline;  *)
(* a phase heading of another volume is never returned with that volume.   *)
C39_Original ==
    (resolution.chapter_num # 0 /\ resolution.found.phase # "") =>
        PhaseUnder(outline_text, resolution.found.phase, resolution.found.volume)

(* a volume heading whose range leaves the chapter out was scanned *)
ForeignVolumeScanned ==
    \E i \in 1..ScanEnd(outline_text, resolution.chapter_num) :
        outline_text[i].kind = "vol" /\ ~InRange(outline_text[i], resolution.chapter_num)

(* when every volume heading scanned contains the chapter, the phase is one of the volume *)
PhaseOfVolumeWithoutForeign == ForeignVolumeScanned \/ C39_Original

(* a phase was returned with the volume it stands under *)
PhaseReturnedUnderVolume ==
    /\ resolution.chapter_num # 0
    /\ resolution.found.phase # ""
    /\ resolution.found.volume # ""
    /\ ~ForeignVolumeScanned
    /\ C39_Original

====
